---- MODULE Spec2Model ----
(***************************************************************************)
(* GitHub connection provisioning for App Hosting backends                 *)
(* (init/features/apphosting/githubConnections.ts).                        *)
(*                                                                         *)
(* Strings are TLA+ strings, read character by character with Len, SubSeq  *)
(* and \o, so that the regular expressions of the source are matched on    *)
(* the very text they see.                                                 *)
(***************************************************************************)
EXTENDS Naturals, Sequences, FiniteSets, TLC

(***************************************************************************)
(* Text helpers (JavaScript string and RegExp primitives)                  *)
(***************************************************************************)

\* s.charAt(i), 1-based; "" outside the string.
Ch(s, i) == IF i >= 1 /\ i <= Len(s) THEN SubSeq(s, i, i) ELSE ""

\* s.startsWith(lit, i), 1-based.
HasAt(s, i, lit) ==
  /\ i >= 1
  /\ i + Len(lit) - 1 <= Len(s)
  /\ SubSeq(s, i, i + Len(lit) - 1) = lit

\* The positions of "/" in s.
SlashPositions(s) == {i \in 1..Len(s) : Ch(s, i) = "/"}

\* s.split("/"): the segments between the slashes, left to right.
SplitFrom(s, from) ==
  LET seg[k \in 1..(Len(s) + 1)] ==
        LET later == {i \in SlashPositions(s) : i >= k} IN
        IF later = {} THEN <<SubSeq(s, k, Len(s))>>
        ELSE LET nxt == CHOOSE i \in later : \A j \in later : i <= j
             IN <<SubSeq(s, k, nxt - 1)>> \o seg[nxt + 1]
  IN seg[from]

Split(s) == SplitFrom(s, 1)

\* s.replaceAll(a, b) for a single-character a.
RECURSIVE ReplaceAllFrom(_, _, _, _)
ReplaceAllFrom(s, i, a, b) ==
  IF i > Len(s) THEN ""
  ELSE (IF Ch(s, i) = a THEN b ELSE Ch(s, i)) \o ReplaceAllFrom(s, i + 1, a, b)

ReplaceAll(s, a, b) == ReplaceAllFrom(s, 1, a, b)

\* s.replace(a, b) with a string pattern: the first occurrence only.
ReplaceFirst(s, a, b) ==
  LET hits == {i \in 1..Len(s) : HasAt(s, i, a)} IN
  IF hits = {} THEN s
  ELSE LET p == CHOOSE i \in hits : \A j \in hits : i <= j
       IN SubSeq(s, 1, p - 1) \o b \o SubSeq(s, p + Len(a), Len(s))

(***************************************************************************)
(* Constants of the source                                                 *)
(***************************************************************************)

\* The result of a function that returns undefined, and of a failed match.
Undefined == "<undefined>"

APPHOSTING_CONN_PREFIX == "apphosting-github-conn-"
APPHOSTING_OAUTH_CONN_NAME == "apphosting-github-oauth"
ADD_CONN_CHOICE == "@ADD_CONN"

\* /.+\/apphosting-github-conn-.+$/.test(name): unanchored on the left, so the
\* prefix may follow any slash of the name that is not its first character.
APPHOSTING_CONN_PATTERN(name) ==
  \E i \in 2..Len(name) :
    /\ Ch(name, i) = "/"
    /\ HasAt(name, i + 1, APPHOSTING_CONN_PREFIX)
    /\ i + Len(APPHOSTING_CONN_PREFIX) < Len(name)

\* Faulty variant: the pattern without its closing $.
CONNECTION_NAME_REGEX_Unanchored(name) ==
  LET seg == Split(name) IN
  /\ Len(seg) >= 6
  /\ seg[1] = "projects" /\ seg[3] = "locations" /\ seg[5] = "connections"
  /\ seg[2] # "" /\ seg[4] # "" /\ seg[6] # ""

\* CONNECTION_NAME_REGEX.exec(name):
\* /^projects\/([^\/]+)\/locations\/([^\/]+)\/connections\/([^\/]+)$/
CONNECTION_NAME_REGEX(name) ==
  LET seg == Split(name) IN
  /\ Len(seg) = 6
  /\ seg[1] = "projects" /\ seg[3] = "locations" /\ seg[5] = "connections"
  /\ seg[2] # "" /\ seg[4] # "" /\ seg[6] # ""

NoParts == [projectId |-> Undefined, location |-> Undefined, id |-> Undefined]

parseConnectionName(name) ==
  IF CONNECTION_NAME_REGEX(name)
  THEN LET seg == Split(name)
       IN [projectId |-> seg[2], location |-> seg[4], id |-> seg[6]]
  ELSE NoParts

\* /github.com\/(.+).git/.exec(cloneUri): the dots are unescaped (any one
\* character), the search is unanchored, the match is the leftmost one and the
\* group is greedy.  A match starting at p with its group ending at e:
SlugMatch(uri, p, e) ==
  /\ HasAt(uri, p, "github")
  /\ Ch(uri, p + 6) # ""
  /\ HasAt(uri, p + 7, "com/")
  /\ e >= p + 11
  /\ Ch(uri, e + 1) # ""
  /\ HasAt(uri, e + 2, "git")

extractRepoSlugFromUri(cloneUri) ==
  LET starts == {p \in 1..Len(cloneUri) :
                   \E e \in 1..Len(cloneUri) : SlugMatch(cloneUri, p, e)}
  IN IF starts = {} THEN Undefined
     ELSE LET p == CHOOSE q \in starts : \A r \in starts : q <= r
              ends == {e \in 1..Len(cloneUri) : SlugMatch(cloneUri, p, e)}
              e == CHOOSE x \in ends : \A y \in ends : x >= y
          IN SubSeq(cloneUri, p + 11, e)

\* Faulty variant: the slug is returned with its slashes.
generateRepositoryId_NoDash(remoteUri) == extractRepoSlugFromUri(remoteUri)

generateRepositoryId(remoteUri) ==
  LET slug == extractRepoSlugFromUri(remoteUri) IN
  IF slug = Undefined THEN Undefined ELSE ReplaceAll(slug, "/", "-")

(***************************************************************************)
(* Data: connections, repository links, errors                             *)
(***************************************************************************)

ProjectId == "my-project"
TargetLocation == "us-central1"
OtherLocation == "europe-west4"

\* installationState.stage of a connection.
Stages == {"PENDING_USER_OAUTH", "PENDING_INSTALL_APP", "COMPLETE"}

\* installationState.actionUri the service hands out in each stage.
ActionUriOf(stage) ==
  CASE stage = "PENDING_USER_OAUTH" -> "https://accounts.example/oauth_v2"
    [] stage = "PENDING_INSTALL_APP" -> "https://github.com/apps/fb/install_v2?next=install_v2"
    [] OTHER -> "https://google.com"

\* The resource name the service gives a connection.
ConnName(projectId, location, id) ==
  "projects/" \o projectId \o "/locations/" \o location \o "/connections/" \o id

\* devConnect.Connection, with githubConfig flattened into cred and inst
\* ("" is an absent authorizerCredential or appInstallationId).
Conn(projectId, location, id, stage, disabled, cred, inst) ==
  [name |-> ConnName(projectId, location, id), stage |-> stage,
   actionUri |-> ActionUriOf(stage), disabled |-> disabled,
   cred |-> cred, inst |-> inst]

\* The value of a connection variable that holds undefined.
NoConn ==
  [name |-> Undefined, stage |-> Undefined, actionUri |-> Undefined,
   disabled |-> FALSE, cred |-> Undefined, inst |-> Undefined]

\* devConnect.GitHubConfig passed to a create call; NoConfig is an omitted one.
Config(cred, inst) == [cred |-> cred, inst |-> inst]
NoConfig == Config("", "")

\* devConnect.GitRepositoryLink.
RepoName(projectId, location, connectionId, repositoryId) ==
  ConnName(projectId, location, connectionId) \o "/gitRepositoryLinks/" \o repositoryId

RepoLink(projectId, location, connectionId, repositoryId, cloneUri) ==
  [name |-> RepoName(projectId, location, connectionId, repositoryId),
   cloneUri |-> cloneUri]

\* A thrown error: its class, the status field the handlers inspect, its message.
\* (status 0: the error carries no status.)
Error(kind, status, message) == [kind |-> kind, status |-> status, message |-> message]
NoError == Error("", 0, "")
NotFoundError == Error("FirebaseError", 404, "not found")
\* The failures a remote call can end in besides not-found.
ServiceErrors ==
  {Error("FirebaseError", 403, "permission denied"),
   Error("FirebaseError", 500, "internal")}
AlreadyExistsError == Error("FirebaseError", 409, "already exists")
TimeoutError == Error("FirebaseError", 0, "Timed out polling the operation")
TypeError == Error("TypeError", 0, "Cannot destructure property of undefined")

\* The value a void function returns.
Void == [void |-> TRUE]

(***************************************************************************)
(* State                                                                   *)
(***************************************************************************)

VARIABLES
  entry,     \* the function the caller invoked
  conns,     \* the service: the set of connections that exist
  repos,     \* the service: the set of repository links that exist
  linkable,  \* the service: connection id -> its pages of linkable clone URIs
  granted,   \* IAM: the service agent holds roles/secretmanager.admin
  envSteps,  \* out-of-band changes of the service state so far
  pc,        \* the statement the flow is suspended at
  stack,     \* the statements the pending calls return to
  loc,       \* the local variables of every function of the flow
  ret,       \* the value the last returning call returned
  err,       \* the error the flow ended with
  calls,     \* every remote call, prompt and browser launch so far, in order
  earlier,   \* the run before this one, when the flow was invoked again
  peer       \* the other of two concurrent invocations, while it is suspended

vars == <<entry, conns, repos, linkable, granted, envSteps, pc, stack, loc, ret, err,
          calls, earlier, peer>>

svc == <<conns, repos, linkable, granted, envSteps>>

(***************************************************************************)
(* Bounds                                                                  *)
(***************************************************************************)

\* Prompts of the OAuth loop in one run.
MaxOauthRounds == 2
\* Times the human may pick "add another connection" in one run.
MaxAddConn == 1
\* Out-of-band changes of the service state in one run.
MaxEnvSteps == 1

(***************************************************************************)
(* Control flow of the (sequential, async) flow                            *)
(***************************************************************************)

\* A log entry: the call, its arguments, the error it threw, the value it gave.
Call(op, args, e, val) == [op |-> op, args |-> args, err |-> e, val |-> val]

Log(op, args, e, val) == calls' = Append(calls, Call(op, args, e, val))

\* return v;
Return(v) ==
  /\ ret' = v
  /\ err' = err
  /\ IF stack = <<>>
     THEN pc' = "done" /\ stack' = <<>>
     ELSE pc' = Head(stack) /\ stack' = Tail(stack)

\* throw e; outside the two try blocks nothing catches, so the flow ends.
Throw(e) ==
  /\ pc' = "failed"
  /\ stack' = <<>>
  /\ err' = e
  /\ ret' = ret

Goto(label) == pc' = label /\ UNCHANGED <<stack, ret, err>>

\* await f(...), resuming at label after.
Invoke(label, after) ==
  /\ pc' = label
  /\ stack' = <<after>> \o stack
  /\ UNCHANGED <<ret, err>>

\* The local variables of every function, before the flow starts.
NoLocals ==
  [goc |-> [location |-> Undefined, id |-> Undefined, cfg |-> NoConfig],
   cc |-> [location |-> Undefined, id |-> Undefined, cfg |-> NoConfig],
   ens |-> [location |-> Undefined, id |-> Undefined, conn |-> NoConn],
   cfic |-> [location |-> Undefined, id |-> Undefined, oauthConn |-> NoConn],
   oa |-> [location |-> Undefined, conn |-> NoConn],
   fa |-> [connections |-> <<>>, idx |-> 0, map |-> <<>>, page |-> 0, acc |-> <<>>],
   pr |-> [connections |-> <<>>],
   lk |-> [location |-> Undefined, oauthConn |-> NoConn, existingConns |-> <<>>,
           repoCloneUri |-> Undefined, connection |-> NoConn,
           connectionId |-> Undefined],
   rp |-> [location |-> Undefined, id |-> Undefined, cloneUri |-> Undefined,
           repositoryId |-> Undefined],
   lac |-> [projectId |-> Undefined],
   pn |-> [name |-> Undefined],
   gri |-> [remoteUri |-> Undefined]]

\* No run came before this one.
NoEarlier == [ran |-> FALSE, pc |-> "", calls |-> <<>>, ret |-> Void, err |-> NoError]

\* What an invocation carries while it is suspended at an await.
Frame(p, st, l, r, e, c) ==
  [pc |-> p, stack |-> st, loc |-> l, ret |-> r, err |-> e, calls |-> c]

\* No second invocation is under way.
NoPeer == Frame("", <<>>, NoLocals, Void, NoError, <<>>)

\* How often op was called so far.
Count(op) == Cardinality({i \in 1..Len(calls) : calls[i].op = op})

(***************************************************************************)
(* The connection-management service (gcp/devConnect) and the poller       *)
(***************************************************************************)

\* An outcome of a remote call: it throws err, or gives val.
Outcome(e, val) == [err |-> e, val |-> val]

Failures(errors, val) == {Outcome(e, val) : e \in errors}

\* devConnect.getConnection: the stored connection, 404 when there is none.
GetConnectionOutcomes(projectId, location, id) ==
  LET found == {c \in conns : c.name = ConnName(projectId, location, id)} IN
  (IF found = {} THEN {Outcome(NotFoundError, NoConn)}
   ELSE {Outcome(NoError, c) : c \in found})
  \cup Failures(ServiceErrors, NoConn)

\* devConnect.createConnection: a long-running operation named after the new
\* connection, which the service stores in a stage of its choosing.
CreateConnectionOutcomes(projectId, location, id, cfg) ==
  LET found == {c \in conns : c.name = ConnName(projectId, location, id)} IN
  (IF found = {}
   THEN {Outcome(NoError, Conn(projectId, location, id, stage, FALSE, cfg.cred, cfg.inst)) :
           stage \in Stages}
   ELSE {Outcome(AlreadyExistsError, NoConn)})
  \cup Failures(ServiceErrors, NoConn)

\* poller.pollOperation on a connection's operation: the connection as it is
\* when the operation is done, or a timeout after masterTimeout.
PollConnectionOutcomes(name) ==
  {Outcome(NoError, c) : c \in {x \in conns : x.name = name}}
  \cup Failures({TimeoutError} \cup ServiceErrors, NoConn)

NoRepo == [name |-> Undefined, cloneUri |-> Undefined]

\* devConnect.getGitRepositoryLink.
GetRepositoryOutcomes(projectId, location, connectionId, repositoryId) ==
  LET found == {r \in repos :
                  r.name = RepoName(projectId, location, connectionId, repositoryId)} IN
  (IF found = {} THEN {Outcome(NotFoundError, NoRepo)}
   ELSE {Outcome(NoError, r) : r \in found})
  \cup Failures(ServiceErrors, NoRepo)

\* devConnect.createGitRepositoryLink: needs the parent connection.
CreateRepositoryOutcomes(projectId, location, connectionId, repositoryId, cloneUri) ==
  LET parent == {c \in conns : c.name = ConnName(projectId, location, connectionId)}
      found == {r \in repos :
                  r.name = RepoName(projectId, location, connectionId, repositoryId)} IN
  (IF parent = {} THEN {Outcome(NotFoundError, NoRepo)}
   ELSE IF found # {} THEN {Outcome(AlreadyExistsError, NoRepo)}
   ELSE {Outcome(NoError,
                 RepoLink(projectId, location, connectionId, repositoryId, cloneUri))})
  \cup Failures(ServiceErrors, NoRepo)

PollRepositoryOutcomes(name) ==
  {Outcome(NoError, r) : r \in {x \in repos : x.name = name}}
  \cup Failures({TimeoutError} \cup ServiceErrors, NoRepo)

\* One page of the service's "list linkable repositories": the clone URIs of
\* page number page of the connection, and the next page token (0: none).
LinkablePage(id, page) ==
  LET pages == IF id \in DOMAIN linkable THEN linkable[id] ELSE <<>> IN
  IF page <= Len(pages)
  THEN [repos |-> pages[page], nextPageToken |-> IF page < Len(pages) THEN page + 1 ELSE 0]
  ELSE [repos |-> <<>>, nextPageToken |-> 0]

(***************************************************************************)
(* createConnection, getOrCreateConnection                                 *)
(***************************************************************************)

\* createConnection: const op = await devConnect.createConnection(...)
cc_create ==
  /\ pc = "cc_create"
  /\ LET a == loc.cc IN
     \E out \in CreateConnectionOutcomes(ProjectId, a.location, a.id, a.cfg) :
       /\ Log("createConnection",
              <<ProjectId, a.location, a.id, a.cfg.cred, a.cfg.inst>>, out.err,
              [op |-> out.val.name])
       /\ IF out.err = NoError
          THEN conns' = conns \cup {out.val} /\ Goto("cc_poll")
          ELSE conns' = conns /\ Throw(out.err)
  /\ UNCHANGED <<repos, linkable, granted, envSteps, loc, entry, earlier, peer>>

\* createConnection: const conn = await poller.pollOperation(...); return conn
cc_poll ==
  /\ pc = "cc_poll"
  /\ LET a == loc.cc
         opName == ConnName(ProjectId, a.location, a.id) IN
     \E out \in PollConnectionOutcomes(opName) :
       /\ Log("pollOperation", <<"create-" \o a.location \o "-" \o a.id, opName>>,
              out.err, out.val)
       /\ IF out.err = NoError THEN Return(out.val) ELSE Throw(out.err)
  /\ UNCHANGED <<svc, loc, entry, earlier, peer>>

\* Faulty variant: any error that carries a status counts as not-found.
IsNotFound_AnyStatus(e) == e.status # 0

\* The catch clauses' test of a fetch error: (err as any).status === 404
IsNotFound(e) == e.status = 404

\* Faulty variant: the config is not passed on.
CreateConfigOf_Dropped(cfg) == NoConfig

\* The githubConfig getOrCreateConnection hands to createConnection.
CreateConfigOf(cfg) == cfg

\* Faulty variant: the caught error is replaced by a new one.
Rethrown_Replaced(e) == Error("FirebaseError", 500, "Failed to set up the connection")

\* What a catch clause rethrows: throw err
Rethrown(e) == e

\* Faulty variant: the connection is created without looking for it first.
goc_get_CreateFirst ==
  /\ pc = "goc_get"
  /\ LET a == loc.goc IN
     loc' = [loc EXCEPT !.cc = [location |-> a.location, id |-> a.id,
                                cfg |-> CreateConfigOf(a.cfg)]]
  /\ calls' = calls
  /\ Invoke("cc_create", "goc_ret")
  /\ UNCHANGED <<svc, entry, earlier, peer>>

\* getOrCreateConnection: try { conn = await devConnect.getConnection(...) }
\* catch: on 404 create, otherwise rethrow.
goc_get ==
  /\ pc = "goc_get"
  /\ LET a == loc.goc IN
     \E out \in GetConnectionOutcomes(ProjectId, a.location, a.id) :
       /\ Log("getConnection", <<ProjectId, a.location, a.id>>, out.err, out.val)
       /\ IF out.err = NoError
          THEN Return(out.val) /\ loc' = loc
          ELSE IF IsNotFound(out.err)
          THEN /\ loc' = [loc EXCEPT !.cc = [location |-> a.location, id |-> a.id,
                                             cfg |-> CreateConfigOf(a.cfg)]]
               /\ Invoke("cc_create", "goc_ret")
          ELSE Throw(Rethrown(out.err)) /\ loc' = loc
  /\ UNCHANGED <<svc, entry, earlier, peer>>

\* getOrCreateConnection: conn = await createConnection(...); return conn
goc_ret ==
  /\ pc = "goc_ret"
  /\ Return(ret)
  /\ UNCHANGED <<svc, loc, calls, entry, earlier, peer>>

(***************************************************************************)
(* getOrCreateRepository                                                   *)
(***************************************************************************)

\* Faulty variant: only the empty string is refused.
Falsy_EmptyOnly(v) == v = ""

\* if (!repositoryId): undefined and the empty string are falsy.
Falsy(v) == v = Undefined \/ v = ""

RepositoryIdError(cloneUri) ==
  Error("FirebaseError", 500,
        "Failed to generate repositoryId for URI \"" \o cloneUri \o "\".")

\* const repositoryId = generateRepositoryId(cloneUri); if (!repositoryId) throw
rp_enter ==
  /\ pc = "rp_enter"
  /\ LET repositoryId == generateRepositoryId(loc.rp.cloneUri) IN
     IF Falsy(repositoryId)
     THEN Throw(RepositoryIdError(loc.rp.cloneUri)) /\ loc' = loc
     ELSE /\ loc' = [loc EXCEPT !.rp.repositoryId = repositoryId]
          /\ Goto("rp_get")
  /\ UNCHANGED <<svc, calls, entry, earlier, peer>>

\* Faulty variant: a link that was found is created all the same.
rp_get_CreatesFound ==
  /\ pc = "rp_get"
  /\ LET a == loc.rp IN
     \E out \in GetRepositoryOutcomes(ProjectId, a.location, a.id, a.repositoryId) :
       /\ Log("getGitRepositoryLink", <<ProjectId, a.location, a.id, a.repositoryId>>,
              out.err, out.val)
       /\ IF out.err = NoError \/ IsNotFound(out.err) THEN Goto("rp_create")
          ELSE Throw(Rethrown(out.err))
  /\ UNCHANGED <<svc, loc, entry, earlier, peer>>

\* try { repo = await devConnect.getGitRepositoryLink(...) } catch: 404 or rethrow
rp_get ==
  /\ pc = "rp_get"
  /\ LET a == loc.rp IN
     \E out \in GetRepositoryOutcomes(ProjectId, a.location, a.id, a.repositoryId) :
       /\ Log("getGitRepositoryLink", <<ProjectId, a.location, a.id, a.repositoryId>>,
              out.err, out.val)
       /\ IF out.err = NoError THEN Return(out.val)
          ELSE IF IsNotFound(out.err) THEN Goto("rp_create")
          ELSE Throw(Rethrown(out.err))
  /\ UNCHANGED <<svc, loc, entry, earlier, peer>>

\* const op = await devConnect.createGitRepositoryLink(...)
rp_create ==
  /\ pc = "rp_create"
  /\ LET a == loc.rp IN
     \E out \in CreateRepositoryOutcomes(ProjectId, a.location, a.id, a.repositoryId,
                                         a.cloneUri) :
       /\ Log("createGitRepositoryLink",
              <<ProjectId, a.location, a.id, a.repositoryId, a.cloneUri>>, out.err,
              [op |-> out.val.name])
       /\ IF out.err = NoError
          THEN repos' = repos \cup {out.val} /\ Goto("rp_poll")
          ELSE repos' = repos /\ Throw(out.err)
  /\ UNCHANGED <<conns, linkable, granted, envSteps, loc, entry, earlier, peer>>

\* repo = await poller.pollOperation(...); return repo
rp_poll ==
  /\ pc = "rp_poll"
  /\ LET a == loc.rp
         opName == RepoName(ProjectId, a.location, a.id, a.repositoryId) IN
     \E out \in PollRepositoryOutcomes(opName) :
       /\ Log("pollOperation",
              <<"create-" \o a.location \o "-" \o a.id \o "-" \o a.repositoryId, opName>>,
              out.err, out.val)
       /\ IF out.err = NoError THEN Return(out.val) ELSE Throw(out.err)
  /\ UNCHANGED <<svc, loc, entry, earlier, peer>>

(***************************************************************************)
(* ensureFullyInstalledConnection                                          *)
(***************************************************************************)

\* Faulty variant: the loop goes round until the connection is complete.
RechecksAgain_UntilComplete(conn) == conn.stage # "COMPLETE"

\* Whether the while loop goes round again after the re-fetch: its body ends in
\* "return await devConnect.getConnection(...)", so it never does.
RechecksAgain(conn) == FALSE

\* while (oauthConn.installationState.stage !== "COMPLETE") { ...
\*   await utils.openInBrowser(targetUri)
ens_enter ==
  /\ pc = "ens_enter"
  /\ LET c == loc.ens.conn IN
     IF c.stage # "COMPLETE"
     THEN /\ Log("openInBrowser",
                 <<ReplaceFirst(c.actionUri, "install_v2", "direct_install_v2")>>,
                 NoError, Void)
          /\ Goto("ens_prompt")
     ELSE /\ calls' = calls
          /\ Return(c)
  /\ UNCHANGED <<svc, loc, entry, earlier, peer>>

\* await promptOnce({ type: "input", message: "Press Enter once you have installed..." })
ens_prompt ==
  /\ pc = "ens_prompt"
  /\ Log("promptOnce", <<"input", "installed">>, NoError, Void)
  /\ Goto("ens_get")
  /\ UNCHANGED <<svc, loc, entry, earlier, peer>>

\* return await devConnect.getConnection(projectId, location, connectionId)
ens_get ==
  /\ pc = "ens_get"
  /\ LET a == loc.ens IN
     \E out \in GetConnectionOutcomes(ProjectId, a.location, a.id) :
       /\ Log("getConnection", <<ProjectId, a.location, a.id>>, out.err, out.val)
       /\ IF out.err # NoError THEN Throw(out.err) /\ loc' = loc
          ELSE IF RechecksAgain(out.val)
          THEN loc' = [loc EXCEPT !.ens.conn = out.val] /\ Goto("ens_enter")
          ELSE Return(out.val) /\ loc' = loc
  /\ UNCHANGED <<svc, entry, earlier, peer>>

(***************************************************************************)
(* getOrCreateOauthConnection                                              *)
(***************************************************************************)

\* let conn = await getOrCreateConnection(projectId, location, APPHOSTING_OAUTH_CONN_NAME)
oa_enter ==
  /\ pc = "oa_enter"
  /\ loc' = [loc EXCEPT !.goc = [location |-> loc.oa.location,
                                 id |-> APPHOSTING_OAUTH_CONN_NAME, cfg |-> NoConfig]]
  /\ Invoke("goc_get", "oa_assign")
  /\ UNCHANGED <<svc, calls, entry, earlier, peer>>

\* conn = <the awaited connection>
oa_assign ==
  /\ pc = "oa_assign"
  /\ loc' = [loc EXCEPT !.oa.conn = ret]
  /\ Goto("oa_loop")
  /\ UNCHANGED <<svc, calls, entry, earlier, peer>>

\* Faulty variant: the loop is never entered.
NeedsOauth_Never(conn) == FALSE

\* The loop condition: conn.installationState.stage === "PENDING_USER_OAUTH"
NeedsOauth(conn) == conn.stage = "PENDING_USER_OAUTH"

\* while (...) { await utils.openInBrowserPopup(conn.installationState.actionUri, ...)
\* ... } return conn
oa_loop ==
  /\ pc = "oa_loop"
  /\ LET c == loc.oa.conn IN
     IF NeedsOauth(c)
     THEN /\ Count("openInBrowserPopup") < MaxOauthRounds
          /\ Log("openInBrowserPopup", <<c.actionUri, "Authorize the GitHub app">>,
                 NoError, Void)
          /\ Goto("oa_prompt")
     ELSE /\ calls' = calls
          /\ Return(c)
  /\ UNCHANGED <<svc, loc, entry, earlier, peer>>

\* await promptOnce({ type: "input", message: "Press Enter once you have authorized the app" })
oa_prompt ==
  /\ pc = "oa_prompt"
  /\ Log("promptOnce", <<"input", "authorized">>, NoError, Void)
  /\ Goto("oa_get")
  /\ UNCHANGED <<svc, loc, entry, earlier, peer>>

\* Faulty variant: the re-fetched connection is not assigned to conn.
oa_get_KeepsCopy ==
  /\ pc = "oa_get"
  /\ LET parts == parseConnectionName(loc.oa.conn.name) IN
     IF parts = NoParts
     THEN calls' = calls /\ Throw(TypeError)
     ELSE \E out \in GetConnectionOutcomes(parts.projectId, parts.location, parts.id) :
            /\ Log("getConnection", <<parts.projectId, parts.location, parts.id>>,
                   out.err, out.val)
            /\ IF out.err # NoError THEN Throw(out.err) ELSE Goto("oa_loop")
  /\ loc' = loc
  /\ UNCHANGED <<svc, entry, earlier, peer>>

\* cleanup(); const { projectId, location, id } = parseConnectionName(conn.name)!;
\* conn = await devConnect.getConnection(projectId, location, id)
oa_get ==
  /\ pc = "oa_get"
  /\ LET parts == parseConnectionName(loc.oa.conn.name) IN
     IF parts = NoParts
     THEN calls' = calls /\ Throw(TypeError) /\ loc' = loc
     ELSE \E out \in GetConnectionOutcomes(parts.projectId, parts.location, parts.id) :
            /\ Log("getConnection", <<parts.projectId, parts.location, parts.id>>,
                   out.err, out.val)
            /\ IF out.err # NoError THEN Throw(out.err) /\ loc' = loc
               ELSE loc' = [loc EXCEPT !.oa.conn = out.val] /\ Goto("oa_loop")
  /\ UNCHANGED <<svc, entry, earlier, peer>>

(***************************************************************************)
(* fetchAllRepositories                                                    *)
(***************************************************************************)

\* A Record<string, Connection>: its entries in insertion order.
MapHas(map, key) == \E i \in DOMAIN map : map[i].key = key

\* record[key]; undefined for a key it does not hold.
MapGet(map, key) ==
  IF MapHas(map, key)
  THEN map[CHOOSE i \in DOMAIN map : map[i].key = key].value
  ELSE NoConn

\* Faulty variant: a key that is already there keeps its value.
MapSet_KeepFirst(map, key, value) ==
  IF MapHas(map, key) THEN map ELSE Append(map, [key |-> key, value |-> value])

\* record[key] = value: an existing key keeps its place and takes the value.
MapSet(map, key, value) ==
  IF MapHas(map, key)
  THEN [i \in DOMAIN map |->
          IF map[i].key = key THEN [key |-> key, value |-> value] ELSE map[i]]
  ELSE Append(map, [key |-> key, value |-> value])

\* Object.keys(record)
MapKeys(map) == [i \in DOMAIN map |-> map[i].key]

\* Faulty variant: only the first repository of a connection is recorded.
AssignAll_FirstOnly(map, uris, conn) ==
  IF uris = <<>> THEN map ELSE MapSet(map, Head(uris), conn)

\* connectionRepos.forEach((repo) => { cloneUriToConnection[repo.cloneUri] = conn })
RECURSIVE AssignAll(_, _, _)
AssignAll(map, uris, conn) ==
  IF uris = <<>> THEN map
  ELSE AssignAll(MapSet(map, Head(uris), conn), Tail(uris), conn)

\* const cloneUriToConnection = {}; for (const conn of connections) {
fa_enter ==
  /\ pc = "fa_enter"
  /\ loc' = [loc EXCEPT !.fa.idx = 1, !.fa.map = <<>>, !.fa.page = 0, !.fa.acc = <<>>]
  /\ Goto("fa_loop")
  /\ UNCHANGED <<svc, calls, entry, earlier, peer>>

\* for (const conn of connections) { const { location, id } =
\* parseConnectionName(conn.name)!; ... } return { cloneUris: Object.keys(...), ... }
fa_loop ==
  /\ pc = "fa_loop"
  /\ LET a == loc.fa IN
     IF a.idx > Len(a.connections)
     THEN /\ Return([cloneUris |-> MapKeys(a.map), cloneUriToConnection |-> a.map])
          /\ loc' = loc
     ELSE IF parseConnectionName(a.connections[a.idx].name) = NoParts
     THEN Throw(TypeError) /\ loc' = loc
     ELSE /\ loc' = [loc EXCEPT !.fa.page = 1, !.fa.acc = <<>>]
          /\ Goto("la_page")
  /\ UNCHANGED <<svc, calls, entry, earlier, peer>>

\* devConnect.listAllLinkableGitRepositories(projectId, location, id): requests
\* page after page until a page carries no next-page token.
la_page ==
  /\ pc = "la_page"
  /\ LET a == loc.fa
         parts == parseConnectionName(a.connections[a.idx].name)
         page == LinkablePage(parts.id, a.page) IN
     \/ /\ Log("listLinkableGitRepositories",
               <<ProjectId, parts.location, parts.id>>, NoError,
               [pageToken |-> IF a.page = 1 THEN 0 ELSE a.page, repos |-> page.repos,
                nextPageToken |-> page.nextPageToken])
        /\ IF page.nextPageToken # 0
           THEN /\ loc' = [loc EXCEPT !.fa.acc = a.acc \o page.repos,
                                      !.fa.page = page.nextPageToken]
                /\ Goto("la_page")
           ELSE /\ loc' = [loc EXCEPT !.fa.acc = a.acc \o page.repos]
                /\ Goto("fa_each")
     \/ \E e \in ServiceErrors :
          /\ Log("listLinkableGitRepositories",
                 <<ProjectId, parts.location, parts.id>>, e,
                 [pageToken |-> IF a.page = 1 THEN 0 ELSE a.page, repos |-> <<>>, nextPageToken |-> 0])
          /\ Throw(e)
          /\ loc' = loc
  /\ UNCHANGED <<svc, entry, earlier, peer>>

\* connectionRepos.forEach(...); the next connection.
fa_each ==
  /\ pc = "fa_each"
  /\ LET a == loc.fa IN
     loc' = [loc EXCEPT !.fa.map = AssignAll(a.map, a.acc, a.connections[a.idx]),
                        !.fa.idx = a.idx + 1]
  /\ Goto("fa_loop")
  /\ UNCHANGED <<svc, calls, entry, earlier, peer>>

\* generateConnectionId: the prefix and Math.random().toString(36).slice(6).
RandomSuffixes == {"k3x9", "q7m2"}
generateConnectionId(suffix) == APPHOSTING_CONN_PREFIX \o suffix

GenA == generateConnectionId("k3x9")
GenB == generateConnectionId("q7m2")

NoCredential == ""
OauthCredential == "secrets/oauth-token"
AppInstallation == "installation-42"

(***************************************************************************)
(* listAppHostingConnections                                               *)
(***************************************************************************)

\* The orders in which the service may list a set of connections.
Orders(S) ==
  {f \in [1..Cardinality(S) -> S] : \A i, j \in 1..Cardinality(S) : f[i] = f[j] => i = j}

\* The filter predicate of listAppHostingConnections.
IsAppHostingConnection(conn) ==
  /\ APPHOSTING_CONN_PATTERN(conn.name)
  /\ conn.stage = "COMPLETE"
  /\ ~conn.disabled

\* const conns = await devConnect.listAllConnections(projectId, "-");
\* return conns.filter(...)
lac_list ==
  /\ pc = "lac_list"
  /\ \/ \E order \in Orders(conns) :
          LET kept == SelectSeq(order, IsAppHostingConnection) IN
          /\ Log("listAllConnections", <<loc.lac.projectId, "-">>, NoError,
                 [listed |-> Len(order), kept |-> Len(kept)])
          /\ Return([items |-> kept])
     \/ \E e \in ServiceErrors :
          /\ Log("listAllConnections", <<loc.lac.projectId, "-">>, e,
                 [listed |-> 0, kept |-> 0])
          /\ Throw(e)
  /\ UNCHANGED <<svc, loc, entry, earlier, peer>>

(***************************************************************************)
(* The human at the prompts                                                *)
(***************************************************************************)

\* The prompts of one kind in a log, in order.
AnswersIn(log, args) == SelectSeq(log, LAMBDA c : c.op = "promptOnce" /\ c.args = args)

\* When the flow is run again the human answers each prompt as in the run
\* before, as far as that run went; in a first run every answer is open.
SameChoice(args, answer) ==
  LET before == AnswersIn(earlier.calls, args)
      k == Len(AnswersIn(calls, args)) + 1
  IN k <= Len(before) => answer = before[k].val.answer

(***************************************************************************)
(* ensureSecretManagerAdminGrant                                           *)
(***************************************************************************)

InsufficientPermissionsError ==
  Error("FirebaseError", 500,
        "Insufficient IAM permissions to create a new connection to GitHub")

\* const projectNumber = await getProjectNumber({ projectId })
gr_enter ==
  /\ pc = "gr_enter"
  /\ \/ Log("getProjectNumber", <<ProjectId>>, NoError, Void) /\ Goto("gr_has")
     \/ \E e \in ServiceErrors : Log("getProjectNumber", <<ProjectId>>, e, Void) /\ Throw(e)
  /\ UNCHANGED <<svc, loc, entry, earlier, peer>>

\* const alreadyGranted = await rm.serviceAccountHasRoles(...); if (alreadyGranted) return
gr_has ==
  /\ pc = "gr_has"
  /\ \/ /\ Log("serviceAccountHasRoles", <<ProjectId, "roles/secretmanager.admin">>,
               NoError, [answer |-> IF granted THEN "yes" ELSE "no"])
        /\ IF granted THEN Return(Void) ELSE Goto("gr_prompt")
     \/ \E e \in ServiceErrors :
          /\ Log("serviceAccountHasRoles", <<ProjectId, "roles/secretmanager.admin">>,
                 e, Void)
          /\ Throw(e)
  /\ UNCHANGED <<svc, loc, entry, earlier, peer>>

\* Faulty variant: a refusal is not acted upon.
gr_prompt_RefusalIgnored ==
  /\ pc = "gr_prompt"
  /\ \E grant \in BOOLEAN :
       /\ SameChoice(<<"confirm", "grant">>, IF grant THEN "yes" ELSE "no")
       /\ Log("promptOnce", <<"confirm", "grant">>, NoError,
              [answer |-> IF grant THEN "yes" ELSE "no"])
       /\ IF grant THEN Goto("gr_add") ELSE Return(Void)
  /\ UNCHANGED <<svc, loc, entry, earlier, peer>>

\* const grant = await promptOnce({ type: "confirm", ... }); if (!grant) throw
gr_prompt ==
  /\ pc = "gr_prompt"
  /\ \E grant \in BOOLEAN :
       /\ SameChoice(<<"confirm", "grant">>, IF grant THEN "yes" ELSE "no")
       /\ Log("promptOnce", <<"confirm", "grant">>, NoError,
              [answer |-> IF grant THEN "yes" ELSE "no"])
       /\ IF grant THEN Goto("gr_add") ELSE Throw(InsufficientPermissionsError)
  /\ UNCHANGED <<svc, loc, entry, earlier, peer>>

\* await rm.addServiceAccountToRoles(...)
gr_add ==
  /\ pc = "gr_add"
  /\ \/ /\ Log("addServiceAccountToRoles", <<ProjectId, "roles/secretmanager.admin">>,
               NoError, Void)
        /\ granted' = TRUE
        /\ Return(Void)
     \/ \E e \in ServiceErrors :
          /\ Log("addServiceAccountToRoles", <<ProjectId, "roles/secretmanager.admin">>,
                 e, Void)
          /\ granted' = granted
          /\ Throw(e)
  /\ UNCHANGED <<conns, repos, linkable, envSteps, loc, entry, earlier, peer>>

(***************************************************************************)
(* createFullyInstalledConnection                                          *)
(***************************************************************************)

\* let conn = await createConnection(projectId, location, connectionId,
\*   { authorizerCredential: oauthConn.githubConfig?.authorizerCredential })
cfic_enter ==
  /\ pc = "cfic_enter"
  /\ LET a == loc.cfic IN
     loc' = [loc EXCEPT !.cc = [location |-> a.location, id |-> a.id,
                                cfg |-> Config(a.oauthConn.cred, NoCredential)]]
  /\ Invoke("cc_create", "cfic_ens")
  /\ UNCHANGED <<svc, calls, entry, earlier, peer>>

\* conn = await ensureFullyInstalledConnection(projectId, location, connectionId, conn)
cfic_ens ==
  /\ pc = "cfic_ens"
  /\ LET a == loc.cfic IN
     loc' = [loc EXCEPT !.ens = [location |-> a.location, id |-> a.id, conn |-> ret]]
  /\ Invoke("ens_enter", "cfic_ret")
  /\ UNCHANGED <<svc, calls, entry, earlier, peer>>

\* return conn
cfic_ret ==
  /\ pc = "cfic_ret"
  /\ Return(ret)
  /\ UNCHANGED <<svc, loc, calls, entry, earlier, peer>>

(***************************************************************************)
(* promptRepositoryUri                                                     *)
(***************************************************************************)

\* const { cloneUris, cloneUriToConnection } = await fetchAllRepositories(...)
pr_enter ==
  /\ pc = "pr_enter"
  /\ loc' = [loc EXCEPT !.fa.connections = loc.pr.connections]
  /\ Invoke("fa_enter", "pr_prompt")
  /\ UNCHANGED <<svc, calls, entry, earlier, peer>>

\* How often the human picked "add another connection".
AddChoices ==
  Cardinality({i \in DOMAIN calls :
                 calls[i].op = "promptOnce" /\ calls[i].val = [answer |-> ADD_CONN_CHOICE]})

\* const cloneUri = await promptOnce({ type: "autocomplete", ... });
\* return { cloneUri, connection: cloneUriToConnection[cloneUri] }
pr_prompt ==
  /\ pc = "pr_prompt"
  /\ \E answer \in {ADD_CONN_CHOICE} \cup {ret.cloneUris[i] : i \in DOMAIN ret.cloneUris} :
       /\ answer = ADD_CONN_CHOICE => AddChoices < MaxAddConn
       /\ SameChoice(<<"autocomplete", "cloneUri">>, answer)
       /\ Log("promptOnce", <<"autocomplete", "cloneUri">>, NoError, [answer |-> answer])
       /\ Return([cloneUri |-> answer,
                  connection |-> MapGet(ret.cloneUriToConnection, answer)])
  /\ UNCHANGED <<svc, loc, entry, earlier, peer>>

(***************************************************************************)
(* linkGitHubRepository                                                    *)
(***************************************************************************)

\* const oauthConn = await getOrCreateOauthConnection(projectId, location)
lk_enter ==
  /\ pc = "lk_enter"
  /\ loc' = [loc EXCEPT !.oa.location = loc.lk.location]
  /\ Invoke("oa_enter", "lk_oauth")
  /\ UNCHANGED <<svc, calls, entry, earlier, peer>>

\* const existingConns = await listAppHostingConnections(projectId)
lk_oauth ==
  /\ pc = "lk_oauth"
  /\ loc' = [loc EXCEPT !.lk.oauthConn = ret, !.lac.projectId = ProjectId]
  /\ Invoke("lac_list", "lk_listed")
  /\ UNCHANGED <<svc, calls, entry, earlier, peer>>

\* if (existingConns.length === 0) { await ensureSecretManagerAdminGrant(projectId); ...
lk_listed ==
  /\ pc = "lk_listed"
  /\ loc' = [loc EXCEPT !.lk.existingConns = ret.items]
  /\ IF Len(ret.items) = 0 THEN Invoke("gr_enter", "lk_first") ELSE Goto("lk_prompt")
  /\ UNCHANGED <<svc, calls, entry, earlier, peer>>

\* existingConns.push(await ensureFullyInstalledConnection(projectId, location,
\*   generateConnectionId(), oauthConn))
lk_first ==
  /\ pc = "lk_first"
  /\ \E suffix \in RandomSuffixes :
       loc' = [loc EXCEPT !.ens = [location |-> loc.lk.location,
                                   id |-> generateConnectionId(suffix),
                                   conn |-> loc.lk.oauthConn]]
  /\ Invoke("ens_enter", "lk_push")
  /\ UNCHANGED <<svc, calls, entry, earlier, peer>>

\* Faulty variant: the awaited connection is not appended.
lk_push_Drop ==
  /\ pc = "lk_push"
  /\ loc' = loc
  /\ Goto("lk_prompt")
  /\ UNCHANGED <<svc, calls, entry, earlier, peer>>

\* existingConns.push(<the awaited connection>)
lk_push ==
  /\ pc = "lk_push"
  /\ loc' = [loc EXCEPT !.lk.existingConns = Append(loc.lk.existingConns, ret)]
  /\ Goto("lk_prompt")
  /\ UNCHANGED <<svc, calls, entry, earlier, peer>>

\* const selection = await promptRepositoryUri(projectId, existingConns)
lk_prompt ==
  /\ pc = "lk_prompt"
  /\ loc' = [loc EXCEPT !.pr.connections = loc.lk.existingConns]
  /\ Invoke("pr_enter", "lk_sel")
  /\ UNCHANGED <<svc, calls, entry, earlier, peer>>

\* repoCloneUri = selection.cloneUri; connection = selection.connection;
\* } while (repoCloneUri === ADD_CONN_CHOICE), whose next round starts with
\* createFullyInstalledConnection(projectId, location, generateConnectionId(), oauthConn)
lk_sel ==
  /\ pc = "lk_sel"
  /\ IF ret.cloneUri = ADD_CONN_CHOICE
     THEN /\ \E suffix \in RandomSuffixes :
               loc' = [loc EXCEPT !.lk.repoCloneUri = ret.cloneUri,
                                  !.lk.connection = ret.connection,
                                  !.cfic = [location |-> loc.lk.location,
                                            id |-> generateConnectionId(suffix),
                                            oauthConn |-> loc.lk.oauthConn]]
          /\ Invoke("cfic_enter", "lk_push")
     ELSE /\ loc' = [loc EXCEPT !.lk.repoCloneUri = ret.cloneUri,
                                !.lk.connection = ret.connection]
          /\ Goto("lk_conn")
  /\ UNCHANGED <<svc, calls, entry, earlier, peer>>

\* Faulty variant: the chosen connection's config is not carried over.
ChosenConfig_Empty(connection) == NoConfig

\* { authorizerCredential: connection.githubConfig?.authorizerCredential,
\*   appInstallationId: connection.githubConfig?.appInstallationId }
ChosenConfig(connection) == Config(connection.cred, connection.inst)

\* const { id: connectionId } = parseConnectionName(connection.name)!;
\* await getOrCreateConnection(projectId, location, connectionId, { ... })
lk_conn ==
  /\ pc = "lk_conn"
  /\ LET parts == parseConnectionName(loc.lk.connection.name)
         c == loc.lk.connection IN
     IF parts = NoParts
     THEN Throw(TypeError) /\ loc' = loc
     ELSE /\ loc' = [loc EXCEPT !.lk.connectionId = parts.id,
                                !.goc = [location |-> loc.lk.location, id |-> parts.id,
                                         cfg |-> ChosenConfig(c)]]
          /\ Invoke("goc_get", "lk_repo")
  /\ UNCHANGED <<svc, calls, entry, earlier, peer>>

\* const repo = await getOrCreateRepository(projectId, location, connectionId, repoCloneUri)
lk_repo ==
  /\ pc = "lk_repo"
  /\ loc' = [loc EXCEPT !.rp = [location |-> loc.lk.location, id |-> loc.lk.connectionId,
                                cloneUri |-> loc.lk.repoCloneUri,
                                repositoryId |-> Undefined]]
  /\ Invoke("rp_enter", "lk_ret")
  /\ UNCHANGED <<svc, calls, entry, earlier, peer>>

\* return repo
lk_ret ==
  /\ pc = "lk_ret"
  /\ Return(ret)
  /\ UNCHANGED <<svc, loc, calls, entry, earlier, peer>>

(***************************************************************************)
(* parseConnectionName and generateRepositoryId called on their own        *)
(***************************************************************************)

\* parseConnectionName(name): synchronous, one step.
pn_call ==
  /\ pc = "pn_call"
  /\ Return(parseConnectionName(loc.pn.name))
  /\ UNCHANGED <<svc, loc, calls, entry, earlier, peer>>

\* generateRepositoryId(remoteUri): synchronous, one step.
gri_call ==
  /\ pc = "gri_call"
  /\ Return(generateRepositoryId(loc.gri.remoteUri))
  /\ UNCHANGED <<svc, loc, calls, entry, earlier, peer>>

(***************************************************************************)
(* The caller invoking the same function again                             *)
(***************************************************************************)

\* Where a run can have stopped when the caller invokes the function again:
\* it returned, it threw, or the process was interrupted while a remote call
\* was due.
StopPoints ==
  {"done", "failed", "lac_list", "gr_has", "gr_add", "ens_get", "oa_get", "la_page",
   "goc_get", "cc_create", "cc_poll", "rp_get", "rp_create", "rp_poll"}

\* The locals of a fresh invocation with the arguments of the one before.
SameArguments ==
  CASE entry = "getOrCreateConnection" -> [NoLocals EXCEPT !.goc = loc.goc]
    [] entry = "getOrCreateRepository" ->
         [NoLocals EXCEPT !.rp = [loc.rp EXCEPT !.repositoryId = Undefined]]
    [] OTHER -> [NoLocals EXCEPT !.lk.location = loc.lk.location]

FirstStatement ==
  CASE entry = "getOrCreateConnection" -> "goc_get"
    [] entry = "getOrCreateRepository" -> "rp_enter"
    [] OTHER -> "lk_enter"

\* The run stops and the caller invokes the function once more, with the same
\* arguments, against the service as the run left it.
Rerun ==
  /\ ~earlier.ran
  /\ calls # <<>>
  /\ pc \in StopPoints
  /\ earlier' = [ran |-> TRUE, pc |-> pc, calls |-> calls, ret |-> ret, err |-> err]
  /\ pc' = FirstStatement
  /\ loc' = SameArguments
  /\ stack' = <<>>
  /\ ret' = Void
  /\ err' = NoError
  /\ calls' = <<>>
  /\ UNCHANGED <<svc, entry, peer>>

(***************************************************************************)
(* Two invocations under way at once                                       *)
(***************************************************************************)

\* The event loop resumes the other invocation: the one that was running
\* stays suspended at its await (or has ended), the other one continues from
\* where it was suspended.  Both talk to the same service.
Switch ==
  /\ peer.pc \notin {"", "done", "failed"}
  /\ pc' = peer.pc
  /\ stack' = peer.stack
  /\ loc' = peer.loc
  /\ ret' = peer.ret
  /\ err' = peer.err
  /\ calls' = peer.calls
  /\ peer' = Frame(pc, stack, loc, ret, err, calls)
  /\ UNCHANGED <<svc, entry, earlier>>

(***************************************************************************)
(* The service changing out of band                                        *)
(***************************************************************************)

\* The flow is about to read or write the service: a change of the service
\* between two such steps is indistinguishable from one right before the second.
Running ==
  pc \in {"lac_list", "gr_has", "gr_add", "ens_get", "oa_get", "la_page",
          "goc_get", "cc_create", "cc_poll", "rp_get", "rp_create", "rp_poll"}

\* The installation state of a connection advances (or falls back) while the
\* human completes a step on the provider's side.
EnvSetStage ==
  /\ Running
  /\ envSteps < MaxEnvSteps
  /\ \E c \in conns : \E stage \in Stages \ {c.stage} :
       conns' = (conns \ {c})
                  \cup {[c EXCEPT !.stage = stage, !.actionUri = ActionUriOf(stage)]}
  /\ envSteps' = envSteps + 1
  /\ UNCHANGED <<repos, linkable, granted, pc, stack, loc, ret, err, calls, entry, earlier,
                 peer>>

\* An administrator disables a connection.
EnvDisable ==
  /\ Running
  /\ envSteps < MaxEnvSteps
  /\ \E c \in {x \in conns : ~x.disabled} :
       conns' = (conns \ {c}) \cup {[c EXCEPT !.disabled = TRUE]}
  /\ envSteps' = envSteps + 1
  /\ UNCHANGED <<repos, linkable, granted, pc, stack, loc, ret, err, calls, entry, earlier,
                 peer>>

(***************************************************************************)
(* Initial states                                                          *)
(***************************************************************************)

\* The sentinel connection as the service may hold it when the flow starts.
SentinelChoices ==
  {{}} \cup
  {{Conn(ProjectId, TargetLocation, APPHOSTING_OAUTH_CONN_NAME, stage, FALSE,
         IF stage = "PENDING_USER_OAUTH" THEN NoCredential ELSE OauthCredential,
         NoCredential)} : stage \in Stages}

\* A generated connection in the target location: none, complete, disabled,
\* or still waiting for the app installation.
GenAChoices ==
  {{},
   {Conn(ProjectId, TargetLocation, GenA, "COMPLETE", FALSE, OauthCredential, AppInstallation)},
   {Conn(ProjectId, TargetLocation, GenA, "COMPLETE", TRUE, OauthCredential, AppInstallation)},
   {Conn(ProjectId, TargetLocation, GenA, "PENDING_INSTALL_APP", FALSE, OauthCredential,
         NoCredential)}}

\* A generated connection that lives in another location.
GenBChoices ==
  {{},
   {Conn(ProjectId, OtherLocation, GenB, "COMPLETE", FALSE, OauthCredential, AppInstallation)}}

InitStores == {a \cup b \cup c : a \in SentinelChoices, b \in GenAChoices, c \in GenBChoices}

UriAB == "https://github.com/a/b.git"
UriAB_C == "https://github.com/a-b/c.git"
UriA_BC == "https://github.com/a/b-c.git"
UriTest == "https://github.com/test/repo0.git"
\* Clone URIs a repository id can be derived from.
CloneUris == {UriAB, UriAB_C, UriA_BC, UriTest}
\* Inputs that do not have the github.com/<slug>.git shape.
MalformedUris == {"https://gitlab.com/a/b.git", "https://github.com/a/b", ADD_CONN_CHOICE, ""}

\* The repository links the service may hold when the flow starts.
InitRepos ==
  {{},
   {RepoLink(ProjectId, TargetLocation, GenA, "a-b", UriAB)},
   {RepoLink(ProjectId, TargetLocation, GenA, "a-b-c", UriAB_C)}}

\* The linkable repositories of each connection, in pages.
LinkableIds == {GenA, GenB, APPHOSTING_OAUTH_CONN_NAME}

LinkableDefault ==
  [id \in LinkableIds |->
      CASE id = GenA -> <<<<UriAB>>, <<UriAB_C>>>>
        [] id = GenB -> <<<<UriAB, UriA_BC>>>>
        [] OTHER -> <<<<>>>>]

LinkableChoices ==
  {LinkableDefault,
   [id \in LinkableIds |->
      CASE id = GenA -> <<<<UriAB, UriAB>>>>
        [] id = GenB -> <<<<UriTest>>, <<>>, <<UriAB>>>>
        [] OTHER -> <<<<UriTest>>>>],
   [id \in LinkableIds |->
      CASE id = GenA -> <<<<UriAB, UriAB_C>>, <<UriA_BC, UriTest>>>>
        [] id = GenB -> <<<<>>>>
        [] OTHER -> <<<<UriAB_C>>, <<UriAB_C>>>>]}

\* Nothing has run yet.
InitControl ==
  /\ earlier = NoEarlier
  /\ peer = NoPeer
  /\ envSteps = 0
  /\ stack = <<>>
  /\ ret = Void
  /\ err = NoError
  /\ calls = <<>>

InitCommon ==
  /\ conns \in InitStores
  /\ repos \in InitRepos
  /\ linkable \in LinkableChoices
  /\ granted \in BOOLEAN
  /\ InitControl

\* A caller invokes getOrCreateConnection or getOrCreateRepository.
InitGetOrCreate ==
  /\ InitCommon
  /\ linkable = LinkableDefault
  /\ granted = FALSE
  /\ \/ /\ entry = "getOrCreateConnection"
        /\ pc = "goc_get"
        /\ \E id \in {APPHOSTING_OAUTH_CONN_NAME, GenA, "apphosting-" \o TargetLocation},
              cfg \in {NoConfig, Config(OauthCredential, AppInstallation)} :
             loc = [NoLocals EXCEPT !.goc = [location |-> TargetLocation, id |-> id,
                                             cfg |-> cfg]]
     \/ /\ entry = "getOrCreateRepository"
        /\ pc = "rp_enter"
        /\ \E uri \in CloneUris \cup MalformedUris :
             loc = [NoLocals EXCEPT !.rp = [location |-> TargetLocation, id |-> GenA,
                                            cloneUri |-> uri,
                                            repositoryId |-> Undefined]]

NextGetOrCreate ==
  \/ goc_get \/ goc_ret \/ cc_create \/ cc_poll
  \/ rp_enter \/ rp_get \/ rp_create \/ rp_poll
  \/ EnvSetStage \/ EnvDisable

SpecGetOrCreate == InitGetOrCreate /\ [][NextGetOrCreate]_vars

(***************************************************************************)
(* getOrCreateOauthConnection and ensureFullyInstalledConnection on their  *)
(* own                                                                     *)
(***************************************************************************)

InitOauth ==
  /\ InitCommon
  /\ repos = {}
  /\ linkable = LinkableDefault
  /\ granted = FALSE
  /\ entry = "getOrCreateOauthConnection"
  /\ pc = "oa_enter"
  /\ loc = [NoLocals EXCEPT !.oa.location = TargetLocation]

NextOauth ==
  \/ oa_enter \/ oa_assign \/ oa_loop \/ oa_prompt \/ oa_get
  \/ goc_get \/ goc_ret \/ cc_create \/ cc_poll
  \/ EnvSetStage \/ EnvDisable

SpecOauth == InitOauth /\ [][NextOauth]_vars

\* The steps of the flow itself.  Each is taken once it is due: the remote
\* calls are answered and the human eventually presses Enter.
OauthFlow ==
  \/ oa_enter \/ oa_assign \/ oa_loop \/ oa_prompt \/ oa_get
  \/ goc_get \/ goc_ret \/ cc_create \/ cc_poll

SpecOauthLive == InitOauth /\ [][NextOauth]_vars /\ WF_vars(OauthFlow)

\* The connections ensureFullyInstalledConnection may be handed.
EnsureInputs ==
  {Conn(ProjectId, TargetLocation, id, stage, FALSE, OauthCredential,
        IF stage = "COMPLETE" THEN AppInstallation ELSE NoCredential) :
     id \in {GenA, APPHOSTING_OAUTH_CONN_NAME}, stage \in Stages}

InitEnsure ==
  /\ InitCommon
  /\ repos = {}
  /\ linkable = LinkableDefault
  /\ granted = FALSE
  /\ entry = "ensureFullyInstalledConnection"
  /\ pc = "ens_enter"
  /\ \E c \in EnsureInputs, id \in {GenA, GenB} :
       loc = [NoLocals EXCEPT !.ens = [location |-> TargetLocation, id |-> id, conn |-> c]]

NextEnsure == ens_enter \/ ens_prompt \/ ens_get \/ EnvSetStage \/ EnvDisable

SpecEnsure == InitEnsure /\ [][NextEnsure]_vars

(***************************************************************************)
(* fetchAllRepositories on its own                                         *)
(***************************************************************************)

\* The connections a caller may pass.
DiscoveryPool ==
  {Conn(ProjectId, TargetLocation, GenA, "COMPLETE", FALSE, OauthCredential, AppInstallation),
   Conn(ProjectId, OtherLocation, GenB, "COMPLETE", FALSE, OauthCredential, AppInstallation),
   Conn(ProjectId, TargetLocation, APPHOSTING_OAUTH_CONN_NAME, "COMPLETE", FALSE,
        OauthCredential, NoCredential)}

\* The connection lists a caller may pass: up to three, in any order, repeats
\* included.
DiscoveryInputs ==
  {<<>>} \cup {<<a>> : a \in DiscoveryPool}
         \cup {<<a, b>> : a \in DiscoveryPool, b \in DiscoveryPool}
         \cup {<<a, b, c>> : a \in DiscoveryPool, b \in DiscoveryPool, c \in DiscoveryPool}

InitDiscovery ==
  /\ InitCommon
  /\ conns = DiscoveryPool
  /\ repos = {}
  /\ granted = FALSE
  /\ entry = "fetchAllRepositories"
  /\ pc = "fa_enter"
  /\ \E cs \in DiscoveryInputs : loc = [NoLocals EXCEPT !.fa.connections = cs]

NextDiscovery == fa_enter \/ fa_loop \/ la_page \/ fa_each

SpecDiscovery == InitDiscovery /\ [][NextDiscovery]_vars

(***************************************************************************)
(* listAppHostingConnections on its own                                    *)
(***************************************************************************)

\* A project whose id begins like a generated connection id.
PrefixedProjectId == "apphosting-github-conn-demo"

\* Connection ids the service may hold: the ones of the unit test, and a bare
\* prefix.
ListedIds ==
  {"apphosting-github-conn-baddcafe", "hooray-conn", "apphosting-github-conn-deadbeef",
   APPHOSTING_OAUTH_CONN_NAME, APPHOSTING_CONN_PREFIX}

\* The connections of a project the service may hold.
ListPool(projectId) ==
  {Conn(projectId, TargetLocation, id, "COMPLETE", FALSE, OauthCredential, AppInstallation) :
     id \in ListedIds}
  \cup {Conn(projectId, OtherLocation, "apphosting-github-conn-baddcafe", "COMPLETE", TRUE,
             OauthCredential, AppInstallation),
        Conn(projectId, OtherLocation, "apphosting-github-conn-deadbeef",
             "PENDING_INSTALL_APP", FALSE, OauthCredential, NoCredential)}

InitList ==
  /\ InitControl
  /\ repos = {}
  /\ linkable = LinkableDefault
  /\ granted = FALSE
  /\ entry = "listAppHostingConnections"
  /\ pc = "lac_list"
  /\ \E projectId \in {ProjectId, PrefixedProjectId} :
       /\ conns \in {S \in SUBSET ListPool(projectId) : Cardinality(S) <= 3}
       /\ loc = [NoLocals EXCEPT !.lac.projectId = projectId]

NextList == lac_list

SpecList == InitList /\ [][NextList]_vars

(***************************************************************************)
(* linkGitHubRepository                                                    *)
(***************************************************************************)

Init ==
  /\ InitControl
  /\ conns \in InitStores
  /\ repos = {RepoLink(ProjectId, TargetLocation, GenA, "a-b", UriAB)}
  /\ linkable = LinkableDefault
  /\ granted \in BOOLEAN
  /\ entry = "linkGitHubRepository"
  /\ pc = "lk_enter"
  /\ loc = [NoLocals EXCEPT !.lk.location = TargetLocation]

Next ==
  \/ lk_enter \/ lk_oauth \/ lk_listed \/ lk_first \/ lk_push \/ lk_prompt \/ lk_sel
  \/ lk_conn \/ lk_repo \/ lk_ret
  \/ oa_enter \/ oa_assign \/ oa_loop \/ oa_prompt \/ oa_get
  \/ lac_list
  \/ gr_enter \/ gr_has \/ gr_prompt \/ gr_add
  \/ cfic_enter \/ cfic_ens \/ cfic_ret
  \/ ens_enter \/ ens_prompt \/ ens_get
  \/ pr_enter \/ pr_prompt
  \/ fa_enter \/ fa_loop \/ la_page \/ fa_each
  \/ goc_get \/ goc_ret \/ cc_create \/ cc_poll
  \/ rp_enter \/ rp_get \/ rp_create \/ rp_poll
  \/ EnvSetStage \/ EnvDisable

Spec == Init /\ [][Next]_vars

(***************************************************************************)
(* parseConnectionName on its own                                          *)
(***************************************************************************)

\* Pieces a caller's name is put together from; the unit test's
\* projects/my-project/locations/us-central1/connections/my-conn is among
\* the results, and so are its extra-segment name and "foobar".
NameLeads == {"", "/"}
NameKeywords1 == {"projects", "project", "locations"}
NameKeywords2 == {"locations", "location"}
NameKeywords3 == {"connections", "repositories"}
NameProjects == {"my-project", "p", "", "a/b"}
NameLocations == {"us-central1", ""}
NameIds == {"my-conn", "c", ""}
NameTails == {"", "/", "/repositories/repo"}

ParseInputs ==
  {lead \o k1 \o "/" \o p \o "/" \o k2 \o "/" \o l \o "/" \o k3 \o "/" \o c \o tail :
     lead \in NameLeads, k1 \in NameKeywords1, p \in NameProjects, k2 \in NameKeywords2,
     l \in NameLocations, k3 \in NameKeywords3, c \in NameIds, tail \in NameTails}
  \cup {"foobar", ""}

InitParse ==
  /\ InitControl
  /\ conns = {}
  /\ repos = {}
  /\ linkable = LinkableDefault
  /\ granted = FALSE
  /\ entry = "parseConnectionName"
  /\ pc = "pn_call"
  /\ \E name \in ParseInputs : loc = [NoLocals EXCEPT !.pn.name = name]

NextParse == pn_call

SpecParse == InitParse /\ [][NextParse]_vars

(***************************************************************************)
(* generateRepositoryId on its own                                         *)
(***************************************************************************)

\* Pieces a remote URI is put together from; the unit test's
\* https://github.com/user/repo.git is among the results.
UriHosts == {"https://github.com/", "https://gitlab.com/", "git@github.com:", ""}
UriOwners == {"user", "a", "a-b", ""}
UriNames == {"repo", "b", "b-c", "legit"}
UriEndings == {".git", "", "-git", ".git/tree/main", ".gi"}

RepositoryIdInputs ==
  {h \o o \o "/" \o r \o e :
     h \in UriHosts, o \in UriOwners, r \in UriNames, e \in UriEndings}
  \cup {h \o r \o e : h \in UriHosts, r \in UriNames, e \in UriEndings}
  \cup MalformedUris

InitRepositoryId ==
  /\ InitControl
  /\ conns = {}
  /\ repos = {}
  /\ linkable = LinkableDefault
  /\ granted = FALSE
  /\ entry = "generateRepositoryId"
  /\ pc = "gri_call"
  /\ \E uri \in RepositoryIdInputs : loc = [NoLocals EXCEPT !.gri.remoteUri = uri]

NextRepositoryId == gri_call

SpecRepositoryId == InitRepositoryId /\ [][NextRepositoryId]_vars

(***************************************************************************)
(* A run followed by a second invocation                                   *)
(***************************************************************************)

\* The stores the two runs of linkGitHubRepository start from: nothing yet,
\* and an authorized sentinel with a complete connection in another location.
RerunStores ==
  {{},
   {Conn(ProjectId, TargetLocation, APPHOSTING_OAUTH_CONN_NAME, "PENDING_INSTALL_APP",
         FALSE, OauthCredential, NoCredential),
    Conn(ProjectId, OtherLocation, GenB, "COMPLETE", FALSE, OauthCredential,
         AppInstallation)}}

InitRerun ==
  \/ InitGetOrCreate
  \/ /\ InitControl
     /\ conns \in RerunStores
     /\ repos = {}
     /\ linkable = LinkableDefault
     /\ granted \in BOOLEAN
     /\ entry = "linkGitHubRepository"
     /\ pc = "lk_enter"
     /\ loc = [NoLocals EXCEPT !.lk.location = TargetLocation]

NextRerun ==
  \/ Rerun
  \/ lk_enter \/ lk_oauth \/ lk_listed \/ lk_first \/ lk_push \/ lk_prompt \/ lk_sel
  \/ lk_conn \/ lk_repo \/ lk_ret
  \/ oa_enter \/ oa_assign \/ oa_loop \/ oa_prompt \/ oa_get
  \/ lac_list
  \/ gr_enter \/ gr_has \/ gr_prompt \/ gr_add
  \/ cfic_enter \/ cfic_ens \/ cfic_ret
  \/ ens_enter \/ ens_prompt \/ ens_get
  \/ pr_enter \/ pr_prompt
  \/ fa_enter \/ fa_loop \/ la_page \/ fa_each
  \/ goc_get \/ goc_ret \/ cc_create \/ cc_poll
  \/ rp_enter \/ rp_get \/ rp_create \/ rp_poll

SpecRerun == InitRerun /\ [][NextRerun]_vars

\* Two callers invoke getOrCreateConnection, or getOrCreateRepository, one
\* after the other without awaiting the first; each has its own arguments.
RaceConnectionIds == {APPHOSTING_OAUTH_CONN_NAME, GenA}
RaceCloneUris == {UriAB, UriAB_C, UriA_BC}

InitRace ==
  /\ conns \in InitStores
  /\ repos \in InitRepos
  /\ linkable = LinkableDefault
  /\ granted = FALSE
  /\ earlier = NoEarlier
  /\ envSteps = 0
  /\ stack = <<>>
  /\ ret = Void
  /\ err = NoError
  /\ calls = <<>>
  /\ \/ /\ entry = "getOrCreateConnection"
        /\ pc = "goc_get"
        /\ \E id1 \in RaceConnectionIds, id2 \in RaceConnectionIds :
             /\ loc = [NoLocals EXCEPT !.goc = [location |-> TargetLocation, id |-> id1,
                                                cfg |-> NoConfig]]
             /\ peer = Frame("goc_get", <<>>,
                             [NoLocals EXCEPT !.goc = [location |-> TargetLocation,
                                                       id |-> id2, cfg |-> NoConfig]],
                             Void, NoError, <<>>)
     \/ /\ entry = "getOrCreateRepository"
        /\ pc = "rp_enter"
        /\ \E uri1 \in RaceCloneUris, uri2 \in RaceCloneUris :
             /\ loc = [NoLocals EXCEPT !.rp = [location |-> TargetLocation, id |-> GenA,
                                               cloneUri |-> uri1,
                                               repositoryId |-> Undefined]]
             /\ peer = Frame("rp_enter", <<>>,
                             [NoLocals EXCEPT !.rp = [location |-> TargetLocation,
                                                      id |-> GenA, cloneUri |-> uri2,
                                                      repositoryId |-> Undefined]],
                             Void, NoError, <<>>)

NextRace ==
  \/ goc_get \/ goc_ret \/ cc_create \/ cc_poll
  \/ rp_enter \/ rp_get \/ rp_create \/ rp_poll
  \/ Switch

SpecRace == InitRace /\ [][NextRace]_vars

(***************************************************************************)
(* Properties                                                              *)
(***************************************************************************)

\* The repository id each clone URI of the model must give, written out:
\* the owner/repo slug with "/" replaced by "-", undefined without that shape.
ExpectedRepositoryId(uri) ==
  CASE uri = UriAB -> "a-b"
    [] uri = UriAB_C -> "a-b-c"
    [] uri = UriA_BC -> "a-b-c"
    [] uri = UriTest -> "test-repo0"
    [] OTHER -> Undefined

\* C1: getOrCreateConnection fetches by id first; on a found fetch it makes no
\* other call and returns the fetched connection; on a 404 it issues one create
\* call for the same project, location, id and config, then one poll, and
\* returns the polled connection as it is (no prompt, no second fetch).
C1_GetOrCreateConnection ==
  entry = "getOrCreateConnection" =>
    LET a == loc.goc
        n == Len(calls) IN
    /\ n <= 3
    /\ n = 0 => pc = "goc_get"
    /\ n >= 1 => /\ calls[1].op = "getConnection"
                 /\ calls[1].args = <<ProjectId, a.location, a.id>>
    /\ (n >= 1 /\ calls[1].err = NoError) =>
         n = 1 /\ pc = "done" /\ ret = calls[1].val
    /\ (n >= 1 /\ calls[1].err # NoError /\ calls[1].err.status # 404) => n = 1
    /\ (n >= 1 /\ calls[1].err.status = 404) =>
         /\ n = 1 => pc = "cc_create"
         /\ n >= 2 => /\ calls[2].op = "createConnection"
                      /\ calls[2].args =
                           <<ProjectId, a.location, a.id, a.cfg.cred, a.cfg.inst>>
         /\ n = 3 => calls[2].err = NoError /\ calls[3].op = "pollOperation"
         /\ pc = "done" => n = 3 /\ calls[3].err = NoError /\ ret = calls[3].val

\* C1 witness: the scenario of the unit test, ending with the pending connection.
C1_Witness ==
  /\ entry = "getOrCreateConnection"
  /\ pc = "done"
  /\ Len(calls) = 3
  /\ loc.goc.id = "apphosting-us-central1"
  /\ ret.stage = "PENDING_USER_OAUTH"
  /\ ret.name = ConnName(ProjectId, TargetLocation, "apphosting-us-central1")

\* C2: getOrCreateRepository fetches by (connectionId, derived repositoryId); on
\* a found fetch it makes no other call and returns the fetched link; on a 404 it
\* issues one create call with the derived id and the clone URI, then one poll,
\* and returns the polled link.
C2_GetOrCreateRepository ==
  (entry = "getOrCreateRepository" /\ ExpectedRepositoryId(loc.rp.cloneUri) # Undefined) =>
    LET a == loc.rp
        rid == ExpectedRepositoryId(a.cloneUri)
        n == Len(calls) IN
    /\ n <= 3
    /\ n = 0 => pc \in {"rp_enter", "rp_get"}
    /\ n >= 1 => /\ calls[1].op = "getGitRepositoryLink"
                 /\ calls[1].args = <<ProjectId, a.location, a.id, rid>>
    /\ (n >= 1 /\ calls[1].err = NoError) =>
         n = 1 /\ pc = "done" /\ ret = calls[1].val
    /\ (n >= 1 /\ calls[1].err # NoError /\ calls[1].err.status # 404) => n = 1
    /\ (n >= 1 /\ calls[1].err.status = 404) =>
         /\ n = 1 => pc = "rp_create"
         /\ n >= 2 => /\ calls[2].op = "createGitRepositoryLink"
                      /\ calls[2].args = <<ProjectId, a.location, a.id, rid, a.cloneUri>>
         /\ n = 3 => calls[2].err = NoError /\ calls[3].op = "pollOperation"
         /\ pc = "done" => n = 3 /\ calls[3].err = NoError /\ ret = calls[3].val

\* C2 witness: the link for test/repo0 is created under id test-repo0 and returned.
C2_Witness ==
  /\ entry = "getOrCreateRepository"
  /\ pc = "done"
  /\ Len(calls) = 3
  /\ calls[2].args[4] = "test-repo0"
  /\ ret = RepoLink(ProjectId, TargetLocation, GenA, "test-repo0", UriTest)

\* C9: in getOrCreateConnection and getOrCreateRepository a fetch failure whose
\* status is not 404 ends the run with that very error, and the run issues no
\* create call and no poll.
C9_OtherFetchErrorsPropagate ==
  entry \in {"getOrCreateConnection", "getOrCreateRepository"} =>
    \A i \in DOMAIN calls :
      (/\ calls[i].op \in {"getConnection", "getGitRepositoryLink"}
       /\ calls[i].err # NoError
       /\ calls[i].err.status # 404) =>
        /\ pc = "failed"
        /\ err = calls[i].err
        /\ Len(calls) = i
        /\ Count("createConnection") = 0
        /\ Count("createGitRepositoryLink") = 0
        /\ Count("pollOperation") = 0

\* C9 witness: a permission-denied fetch of the repository link ended the run.
C9_Witness ==
  /\ entry = "getOrCreateRepository"
  /\ pc = "failed"
  /\ Len(calls) = 1
  /\ calls[1].op = "getGitRepositoryLink"
  /\ calls[1].err.status = 403
  /\ err.status = 403

\* C10: when no repository id can be derived from cloneUri, getOrCreateRepository
\* fails with an error that names the URI and issues no remote call at all.
C10_UnderivableIdFailsBeforeAnyCall ==
  (entry = "getOrCreateRepository" /\ ExpectedRepositoryId(loc.rp.cloneUri) = Undefined) =>
    /\ calls = <<>>
    /\ pc \in {"rp_enter", "failed"}
    /\ pc = "failed" =>
         /\ err.kind = "FirebaseError"
         /\ err.message =
              "Failed to generate repositoryId for URI \"" \o loc.rp.cloneUri \o "\"."
         /\ repos \in InitRepos

\* C10 witness: a gitlab URL was refused.
C10_Witness ==
  /\ entry = "getOrCreateRepository"
  /\ loc.rp.cloneUri = "https://gitlab.com/a/b.git"
  /\ pc = "failed"
  /\ calls = <<>>

\* C3 as stated: the connection getOrCreateOauthConnection returns is COMPLETE.
C3_ReturnsComplete ==
  (entry = "getOrCreateOauthConnection" /\ pc = "done") => ret.stage = "COMPLETE"

\* C3 as amended: getOrCreateOauthConnection loops while the stage is
\* PENDING_USER_OAUTH, so the connection it returns is in some other stage
\* (COMPLETE or a later pending stage), and it is the connection the service
\* reported last.
C3_ReturnsNotPendingOauth ==
  (entry = "getOrCreateOauthConnection" /\ pc = "done") =>
    /\ ret.stage \in Stages \ {"PENDING_USER_OAUTH"}
    /\ calls # <<>>
    /\ calls[Len(calls)].op \in {"getConnection", "pollOperation"}
    /\ calls[Len(calls)].err = NoError
    /\ ret = calls[Len(calls)].val
    /\ \A i \in DOMAIN calls :
         (i < Len(calls) /\ calls[i].op \in {"getConnection", "pollOperation"}
            /\ calls[i].err = NoError) => calls[i].val.stage = "PENDING_USER_OAUTH"

\* C3 witness: after one authorization round the service reports
\* PENDING_INSTALL_APP and that connection is returned.
C3_Witness ==
  /\ entry = "getOrCreateOauthConnection"
  /\ pc = "done"
  /\ Count("promptOnce") >= 1
  /\ ret.stage = "PENDING_INSTALL_APP"

\* The URI ensureFullyInstalledConnection must open for each stage's actionUri:
\* the first "install_v2" becomes "direct_install_v2".
ExpectedInstallUri(stage) ==
  CASE stage = "PENDING_INSTALL_APP" ->
         "https://github.com/apps/fb/direct_install_v2?next=install_v2"
    [] stage = "PENDING_USER_OAUTH" -> "https://accounts.example/oauth_v2"
    [] OTHER -> Undefined

IdOf(conn) ==
  CHOOSE id \in LinkableIds :
    \E l \in {TargetLocation, OtherLocation} : conn.name = ConnName(ProjectId, l, id)

\* The clone URIs the service lists for a connection, over all its pages.
ListedBy(conn) ==
  LET pages == linkable[IdOf(conn)] IN
  UNION {{pages[p][k] : k \in DOMAIN pages[p]} : p \in DOMAIN pages}

\* C6: fetchAllRepositories returns a mapping whose keys are exactly the clone
\* URIs listed by some input connection, each mapped to the last input
\* connection that lists it, and cloneUris is that key set without duplicates.
C6_LastConnectionWins ==
  (entry = "fetchAllRepositories" /\ pc = "done") =>
    LET cs == loc.fa.connections
        m == ret.cloneUriToConnection
        all == UNION {ListedBy(cs[i]) : i \in DOMAIN cs} IN
    /\ {m[i].key : i \in DOMAIN m} = all
    /\ \A i, j \in DOMAIN m : m[i].key = m[j].key => i = j
    /\ \A i \in DOMAIN m :
         LET owners == {k \in DOMAIN cs : m[i].key \in ListedBy(cs[k])} IN
         m[i].value = cs[CHOOSE k \in owners : \A o \in owners : o <= k]
    /\ {ret.cloneUris[i] : i \in DOMAIN ret.cloneUris} = all
    /\ Len(ret.cloneUris) = Cardinality(all)

\* C6 witness: two different connections list the same clone URI and the
\* mapping holds the second one.
C6_Witness ==
  /\ entry = "fetchAllRepositories"
  /\ pc = "done"
  /\ Len(loc.fa.connections) = 2
  /\ loc.fa.connections[1] # loc.fa.connections[2]
  /\ UriAB \in ListedBy(loc.fa.connections[1]) \cap ListedBy(loc.fa.connections[2])
  /\ \E i \in DOMAIN ret.cloneUriToConnection :
       /\ ret.cloneUriToConnection[i].key = UriAB
       /\ ret.cloneUriToConnection[i].value = loc.fa.connections[2]
  /\ Len(ret.cloneUris) = 3

ListedIdOf(conn) ==
  CHOOSE id \in ListedIds :
    \E l \in {TargetLocation, OtherLocation} :
      conn.name = ConnName(loc.lac.projectId, l, id)

\* Connection ids that are the fixed prefix followed by a non-empty suffix.
HasGeneratedId(conn) ==
  LET id == ListedIdOf(conn) IN
  /\ Len(id) > Len(APPHOSTING_CONN_PREFIX)
  /\ SubSeq(id, 1, Len(APPHOSTING_CONN_PREFIX)) = APPHOSTING_CONN_PREFIX

\* C8: listAppHostingConnections returns exactly the listed connections whose
\* connection id is the prefix apphosting-github-conn- followed by a non-empty
\* suffix, whose stage is COMPLETE and which are not disabled, whatever the
\* order of the listing; the sentinel and every other id are left out.
C8_ExactlyTheGeneratedIds ==
  (entry = "listAppHostingConnections" /\ pc = "done") =>
    {ret.items[i] : i \in DOMAIN ret.items}
      = {c \in conns : HasGeneratedId(c) /\ c.stage = "COMPLETE" /\ ~c.disabled}

\* The create calls of the flow other than the one for the sentinel.
GeneratedCreates ==
  {i \in DOMAIN calls :
     calls[i].op = "createConnection" /\ calls[i].args[3] # APPHOSTING_OAUTH_CONN_NAME}

\* The listing of this run found no eligible connection.
NothingEligible ==
  \E i \in DOMAIN calls :
    /\ calls[i].op = "listAllConnections"
    /\ calls[i].err = NoError
    /\ calls[i].val.kept = 0

\* C5: in linkGitHubRepository, when the listing has no eligible connection
\* and the grant is in place, the first repository discovery starts after
\* exactly one create call with a generated connection id and the sentinel's
\* authorizer credential, and with that created connection as the only
\* element of the eligible set.
C5_FirstConnectionIsCreated ==
  (/\ entry = "linkGitHubRepository"
   /\ NothingEligible
   /\ pc = "pr_enter"
   /\ Count("listLinkableGitRepositories") = 0) =>
    /\ Cardinality(GeneratedCreates) = 1
    /\ \A i \in GeneratedCreates :
         /\ calls[i].err = NoError
         /\ calls[i].args[3] \in {generateConnectionId(s) : s \in RandomSuffixes}
         /\ calls[i].args[4] = loc.lk.oauthConn.cred
         /\ Len(loc.lk.existingConns) = 1
         /\ loc.lk.existingConns[1].name
              = ConnName(ProjectId, loc.lk.location, calls[i].args[3])

\* A non-empty string without a slash.
IsSegment(s) == Len(s) > 0 /\ \A i \in 1..Len(s) : SubSeq(s, i, i) # "/"

\* The triples (P, L, C) for which name is projects/P/locations/L/connections/C.
WellFormedAs(name) ==
  {t \in NameProjects \X NameLocations \X NameIds :
     /\ IsSegment(t[1]) /\ IsSegment(t[2]) /\ IsSegment(t[3])
     /\ name = "projects/" \o t[1] \o "/locations/" \o t[2] \o "/connections/" \o t[3]}

RepositoryShapes ==
  {t \in (UriOwners \ {""}) \X UriNames : IsSegment(t[1]) /\ IsSegment(t[2])}

ShapedAs(uri) ==
  {t \in RepositoryShapes : uri = "https://github.com/" \o t[1] \o "/" \o t[2] \o ".git"}

\* C14: generateRepositoryId returns owner-repo for a clone URL of the shape
\* .../owner/repo.git (https://github.com/user/repo.git gives user-repo) and
\* undefined for every URI that does not have that shape.
C14_IdOnlyForRepositoryShape ==
  (entry = "generateRepositoryId" /\ pc = "done") =>
    /\ \A t \in ShapedAs(loc.gri.remoteUri) : ret = t[1] \o "-" \o t[2]
    /\ ShapedAs(loc.gri.remoteUri) = {} => ret = Undefined

\* The log positions at which the human picked "add another connection".
AddPicks ==
  {i \in DOMAIN calls :
     calls[i].op = "promptOnce" /\ calls[i].val = [answer |-> ADD_CONN_CHOICE]}

\* The log positions after position i.
After(i) == {j \in DOMAIN calls : j > i}

\* The names of the connections whose linkable repositories were requested at
\* the log positions J.
DiscoveredAt(J) ==
  {ConnName(calls[j].args[1], calls[j].args[2], calls[j].args[3]) :
     j \in {k \in J : calls[k].op = "listLinkableGitRepositories"}}

\* The size of the eligible set before the selection loop: what the listing
\* kept, or the one connection pushed when it kept none.
EligibleAtLoopStart ==
  LET i == CHOOSE k \in DOMAIN calls : calls[k].op = "listAllConnections"
  IN IF calls[i].val.kept = 0 THEN 1 ELSE calls[i].val.kept

\* The connection the most recent discovery maps uri to: the one whose page
\* is the last in the log to carry uri.
LastListing(uri) ==
  LET hits == {j \in DOMAIN calls :
                 /\ calls[j].op = "listLinkableGitRepositories"
                 /\ \E k \in DOMAIN calls[j].val.repos : calls[j].val.repos[k] = uri}
      j == CHOOSE x \in hits : \A y \in hits : x >= y
  IN ConnName(calls[j].args[1], calls[j].args[2], calls[j].args[3])

\* C11: in the selection loop of linkGitHubRepository, when the next prompt
\* is due after the human picked "add another connection", exactly one
\* connection was created since that pick, under a generated id, it is the
\* last element of the eligible set, which has grown by one per pick, and
\* discovery has run again over the whole enlarged set; and the loop is left
\* only with a clone URI and the connection of the eligible set that the most
\* recent discovery maps it to.
C11_SelectionLoop ==
  /\ (entry = "linkGitHubRepository" /\ pc = "pr_prompt" /\ AddPicks # {}) =>
       LET last == CHOOSE i \in AddPicks : \A j \in AddPicks : i >= j
           made == {j \in After(last) : calls[j].op = "createConnection"}
           eligible == loc.lk.existingConns
       IN /\ Len(eligible) = EligibleAtLoopStart + Cardinality(AddPicks)
          /\ Cardinality(made) = 1
          /\ \A j \in made :
               /\ calls[j].err = NoError
               /\ calls[j].args[3] \in {generateConnectionId(s) : s \in RandomSuffixes}
               /\ eligible[Len(eligible)].name
                    = ConnName(ProjectId, loc.lk.location, calls[j].args[3])
               /\ DiscoveredAt(After(j)) = {eligible[k].name : k \in DOMAIN eligible}
  /\ (entry = "linkGitHubRepository" /\ pc = "lk_conn") =>
       /\ loc.lk.repoCloneUri # ADD_CONN_CHOICE
       /\ loc.lk.repoCloneUri \in CloneUris
       /\ loc.lk.connection.name = LastListing(loc.lk.repoCloneUri)
       /\ \E k \in DOMAIN loc.lk.existingConns :
            loc.lk.existingConns[k] = loc.lk.connection

\* The human added a connection and then picked a clone URI that the added
\* connection lists.
C11_Witness ==
  /\ entry = "linkGitHubRepository"
  /\ pc = "lk_conn"
  /\ AddPicks # {}
  /\ Len(loc.lk.existingConns) >= 2
  /\ loc.lk.connection = loc.lk.existingConns[Len(loc.lk.existingConns)]

\* The log position of the last repository prompt.
LastPick ==
  CHOOSE i \in DOMAIN calls :
    /\ calls[i].op = "promptOnce" /\ calls[i].args = <<"autocomplete", "cloneUri">>
    /\ \A j \in After(i) : calls[j].op # "promptOnce"

\* The get-or-create of a connection that starts at log position g came back
\* with a connection; DoneAt is the position of its last call.
GotOrCreatedAt(g, location, id, cred, inst) ==
  /\ calls[g].op = "getConnection"
  /\ calls[g].args = <<ProjectId, location, id>>
  /\ \/ calls[g].err = NoError
     \/ /\ calls[g].err = NotFoundError
        /\ g + 2 <= Len(calls)
        /\ calls[g + 1].op = "createConnection"
        /\ calls[g + 1].args = <<ProjectId, location, id, cred, inst>>
        /\ calls[g + 1].err = NoError
        /\ calls[g + 2].op = "pollOperation"
        /\ calls[g + 2].err = NoError

DoneAt(g) == IF calls[g].err = NoError THEN g ELSE g + 2

RepositoryCalls ==
  {j \in DOMAIN calls :
     calls[j].op \in {"getGitRepositoryLink", "createGitRepositoryLink"}}

\* C12: when linkGitHubRepository returns, a connection with the chosen
\* connection's id exists in the target location, fetched or created there
\* by a get-or-create carrying the chosen connection's credential and
\* installation id; the returned link was got-or-created for the chosen clone
\* URI under (target location, connection id); and every repository call
\* comes after the connection get-or-create has returned.
C12_TargetConnectionThenRepository ==
  (entry = "linkGitHubRepository" /\ pc = "done") =>
    LET id == loc.lk.connectionId
        chosen == loc.lk.connection
        uri == loc.lk.repoCloneUri
        target == loc.lk.location
        gets == {j \in After(LastPick) : calls[j].op = "getConnection"}
    IN /\ \E l \in {TargetLocation, OtherLocation} :
            chosen.name = ConnName(ProjectId, l, id)
       /\ Cardinality(gets) = 1
       /\ \A g \in gets :
            /\ GotOrCreatedAt(g, target, id, chosen.cred, chosen.inst)
            /\ \A j \in RepositoryCalls : j > DoneAt(g)
       /\ \E c \in conns : c.name = ConnName(ProjectId, target, id)
       /\ RepositoryCalls # {}
       /\ \A j \in RepositoryCalls :
            /\ calls[j].args[2] = target
            /\ calls[j].args[3] = id
            /\ calls[j].args[4] = generateRepositoryId(uri)
            /\ calls[j].op = "createGitRepositoryLink" => calls[j].args[5] = uri
       /\ ret.name = RepoName(ProjectId, target, id, generateRepositoryId(uri))

\* The chosen connection lives in another location; the flow created its
\* namesake in the target location and returned a link under it.
C12_Witness ==
  /\ entry = "linkGitHubRepository"
  /\ pc = "done"
  /\ loc.lk.connection.name = ConnName(ProjectId, OtherLocation, GenB)
  /\ \E j \in DOMAIN calls :
       /\ calls[j].op = "createConnection"
       /\ calls[j].args = <<ProjectId, TargetLocation, GenB, OauthCredential, AppInstallation>>
       /\ calls[j].err = NoError
  /\ ret.name = RepoName(ProjectId, TargetLocation, GenB, "a-b-c")

\* The fetch at log position i is the one a get-or-create starts with: a
\* repository-link fetch, or a connection fetch that opens the flow or follows
\* the repository prompt (the other connection fetches follow an "input"
\* prompt and have no catch clause around them).
InGetOrCreate(i) ==
  \/ calls[i].op = "getGitRepositoryLink"
  \/ /\ calls[i].op = "getConnection"
     /\ \/ i = 1
        \/ /\ calls[i - 1].op = "promptOnce"
           /\ calls[i - 1].args = <<"autocomplete", "cloneUri">>

\* C15: in linkGitHubRepository a failed remote step, unless it is a
\* not-found fetch inside a get-or-create, is the last entry of the log for
\* good: the flow has thrown that very error, so no remote call and no prompt
\* follows and no repository link is returned.
C15_FailuresEndTheFlow ==
  entry = "linkGitHubRepository" =>
    \A i \in DOMAIN calls :
      (calls[i].err # NoError /\ ~(InGetOrCreate(i) /\ calls[i].err = NotFoundError)) =>
        /\ i = Len(calls)
        /\ pc = "failed"
        /\ stack = <<>>
        /\ err = calls[i].err

\* The poll of the repository link's create operation timed out.
C15_Witness ==
  /\ entry = "linkGitHubRepository"
  /\ pc = "failed"
  /\ Len(calls) >= 2
  /\ calls[Len(calls)].op = "pollOperation"
  /\ calls[Len(calls)].err = TimeoutError
  /\ calls[Len(calls) - 1].op = "createGitRepositoryLink"
  /\ err = TimeoutError

CreateOps == {"createConnection", "createGitRepositoryLink"}

\* The resource a create call is for: the arguments up to the resource id.
CreatedBy(call) ==
  IF call.op = "createConnection" THEN SubSeq(call.args, 1, 3) ELSE SubSeq(call.args, 1, 4)

\* The create at position j of this run is for a resource that a successful
\* create of the run before was for.
CreatedBefore(j) ==
  \E i \in DOMAIN earlier.calls :
    /\ earlier.calls[i].op = calls[j].op
    /\ earlier.calls[i].err = NoError
    /\ CreatedBy(earlier.calls[i]) = CreatedBy(calls[j])

\* The create at position j is the one of a newly added connection: it comes
\* right after the pick of "add another connection", under a drawn id.
UnderDrawnId(j) == j > 1 /\ (j - 1) \in AddPicks

C17_DiscoveryOverEligibleOnly ==
  (entry = "linkGitHubRepository" /\ pc = "pr_enter") =>
    \A k \in DOMAIN loc.lk.existingConns :
      LET c == loc.lk.existingConns[k] IN
      /\ IdOf(c) \in {generateConnectionId(s) : s \in RandomSuffixes}
      /\ c.stage = "COMPLETE"
      /\ ~c.disabled

\* The log position of the last wait for the human (0: none so far).
LastWait ==
  LET waits == {i \in DOMAIN calls : calls[i].op = "promptOnce"} IN
  IF waits = {} THEN 0 ELSE CHOOSE i \in waits : \A j \in waits : i >= j

\* The copy conn is what a fetch of that connection, or a listing, gave since
\* the last wait for the human.
FetchedSinceLastWait(conn) ==
  \E j \in DOMAIN calls :
    /\ j > LastWait
    /\ calls[j].err = NoError
    /\ \/ calls[j].op = "listAllConnections"
       \/ calls[j].op \in {"getConnection", "pollOperation"} /\ calls[j].val = conn

\* C18: linkGitHubRepository acts on no cached copy: the connections it hands
\* to discovery, and the chosen connection whose credential and installation
\* id it passes on, are as fetched from the service since the last wait for
\* the human.
C18_NoCachedCopies ==
  /\ (entry = "linkGitHubRepository" /\ pc = "pr_enter") =>
       \A k \in DOMAIN loc.lk.existingConns :
         FetchedSinceLastWait(loc.lk.existingConns[k])
  /\ (entry = "linkGitHubRepository" /\ pc = "lk_conn") =>
       FetchedSinceLastWait(loc.lk.connection)

\* The human declined to grant the role.
Declined ==
  \E i \in DOMAIN calls :
    /\ calls[i].op = "promptOnce"
    /\ calls[i].args = <<"confirm", "grant">>
    /\ calls[i].val = [answer |-> "no"]

\* The role check answered that the role is granted.
AlreadyGranted ==
  \E i \in DOMAIN calls :
    calls[i].op = "serviceAccountHasRoles" /\ calls[i].val = [answer |-> "yes"]

GrantPrompts ==
  {i \in DOMAIN calls : calls[i].op = "promptOnce" /\ calls[i].args = <<"confirm", "grant">>}

\* C19 as stated: once the human has declined the grant, the run has aborted
\* and has issued no role-add call, no connection create call at all, no
\* repository discovery and no repository-link create; and when the role is
\* already granted there is no confirmation prompt and no role-add call.
C19_DeclinedRunCreatesNothing ==
  entry = "linkGitHubRepository" =>
    /\ Declined =>
         /\ pc = "failed"
         /\ err = InsufficientPermissionsError
         /\ ~granted
         /\ Count("addServiceAccountToRoles") = 0
         /\ Count("createConnection") = 0
         /\ Count("listLinkableGitRepositories") = 0
         /\ Count("createGitRepositoryLink") = 0
    /\ AlreadyGranted => (GrantPrompts = {} /\ Count("addServiceAccountToRoles") = 0)

\* C19, amended: as above, except that the sentinel connection may have been
\* created before the grant was asked for; the refusal is the last entry of
\* the log and no connection other than the sentinel is created.
C19_DeclinedRunCreatesOnlySentinel ==
  entry = "linkGitHubRepository" =>
    /\ Declined =>
         /\ pc = "failed"
         /\ err = InsufficientPermissionsError
         /\ ~granted
         /\ calls[Len(calls)].op = "promptOnce"
         /\ calls[Len(calls)].val = [answer |-> "no"]
         /\ Count("addServiceAccountToRoles") = 0
         /\ \A j \in DOMAIN calls :
              calls[j].op = "createConnection" =>
                calls[j].args[3] = APPHOSTING_OAUTH_CONN_NAME
         /\ Count("listLinkableGitRepositories") = 0
         /\ Count("createGitRepositoryLink") = 0
    /\ AlreadyGranted => (GrantPrompts = {} /\ Count("addServiceAccountToRoles") = 0)

\* The run created the sentinel, found nothing eligible and no grant, and the
\* human declined.
C19_Witness ==
  /\ entry = "linkGitHubRepository"
  /\ Declined
  /\ pc = "failed"
  /\ \E j \in DOMAIN calls :
       /\ calls[j].op = "createConnection"
       /\ calls[j].err = NoError
       /\ calls[j].args[3] = APPHOSTING_OAUTH_CONN_NAME

\* The log positions of the fetches that reported the sentinel connection.
Reports ==
  {i \in DOMAIN calls :
     calls[i].op \in {"getConnection", "pollOperation"} /\ calls[i].err = NoError}

\* The service holds the sentinel in a stage other than PENDING_USER_OAUTH.
Authorized ==
  \E c \in conns :
    /\ c.name = ConnName(ProjectId, TargetLocation, APPHOSTING_OAUTH_CONN_NAME)
    /\ c.stage # "PENDING_USER_OAUTH"

\* What getOrCreateOauthConnection has done so far is a row of whole rounds:
\* a report of a stage other than PENDING_USER_OAUTH is the end of the log,
\* a report of PENDING_USER_OAUTH is followed by the launch of its actionUri,
\* the launch by the wait for Enter, and the wait by a fetch under the
\* project, location and id that make up the reported connection's name.
OauthRounds ==
  entry = "getOrCreateOauthConnection" =>
    /\ \A i \in Reports :
         IF calls[i].val.stage # "PENDING_USER_OAUTH"
         THEN i = Len(calls) /\ pc # "failed"
         ELSE /\ pc = "done" => i + 2 < Len(calls)
              /\ i < Len(calls) =>
                   /\ calls[i + 1].op = "openInBrowserPopup"
                   /\ calls[i + 1].args[1] = calls[i].val.actionUri
              /\ i + 1 < Len(calls) =>
                   /\ calls[i + 2].op = "promptOnce"
                   /\ calls[i + 2].args = <<"input", "authorized">>
              /\ i + 2 < Len(calls) =>
                   /\ calls[i + 3].op = "getConnection"
                   /\ Len(calls[i + 3].args) = 3
                   /\ ConnName(calls[i + 3].args[1], calls[i + 3].args[2],
                               calls[i + 3].args[3]) = calls[i].val.name
    /\ \A j \in DOMAIN calls :
         calls[j].op \in {"openInBrowserPopup", "promptOnce"} =>
           \E i \in Reports : i < j /\ j <= i + 2
    /\ Count("openInBrowserPopup") <= MaxOauthRounds

\* C20: getOrCreateOauthConnection goes round (launch, wait, re-fetch by the
\* connection's own name) for as long as the fetches report
\* PENDING_USER_OAUTH, whatever the number of rounds so far, stops at the
\* first report of another stage, and has ended once the service reports
\* another stage for good and the human keeps pressing Enter.
C20_LoopsWhilePendingOauth ==
  /\ []OauthRounds
  /\ (<>[]Authorized) => <>(pc \in {"done", "failed"})

\* The function returned after as many rounds as the model allows.
C20_Witness ==
  /\ entry = "getOrCreateOauthConnection"
  /\ pc = "done"
  /\ Count("openInBrowserPopup") = MaxOauthRounds
  /\ Count("promptOnce") = MaxOauthRounds
  /\ Cardinality({i \in Reports : calls[i].val.stage = "PENDING_USER_OAUTH"}) = MaxOauthRounds

\* C22: the repository link getOrCreateRepository returns is a link to the
\* clone URI it was asked for (distinct clone URIs of the owner/repo.git
\* shape would have to derive distinct repository ids for that).
C22_ReturnedLinkIsTheRequested ==
  (entry = "getOrCreateRepository" /\ pc = "done") =>
    ret.cloneUri = loc.rp.cloneUri

\* The grant was confirmed or added by a call of this run before log position j.
GrantSettledBefore(j) ==
  \E i \in 1..(j - 1) :
    \/ calls[i].op = "serviceAccountHasRoles" /\ calls[i].val = [answer |-> "yes"]
    \/ calls[i].op = "addServiceAccountToRoles" /\ calls[i].err = NoError

\* C23: in linkGitHubRepository every create call for a connection under a
\* generated id comes after the run has seen the Secret Manager Admin grant
\* confirmed or has added it, also for the connections created when the
\* human picks "add another connection".
C23_GrantBeforeGeneratedCreate ==
  entry = "linkGitHubRepository" =>
    \A j \in GeneratedCreates : GrantSettledBefore(j)

\* C24: in linkGitHubRepository the connection that the final get-or-create
\* in the target location returned is in the target location, in stage
\* COMPLETE and not disabled when getOrCreateRepository is called.
C24_RepositoryUnderUsableConnection ==
  (entry = "linkGitHubRepository" /\ pc = "lk_repo") =>
    /\ ret.name = ConnName(ProjectId, TargetLocation, loc.lk.connectionId)
    /\ ret.stage = "COMPLETE"
    /\ ~ret.disabled

\* The fetch that a create call answers to.
FetchOpOf(op) ==
  IF op = "createConnection" THEN "getConnection" ELSE "getGitRepositoryLink"

\* One invocation, by its own log: a create call comes right after its own
\* fetch of the same resource reported not-found, and it is the only create
\* call of the invocation.
OneCreatePerFlow(log) ==
  \A j \in DOMAIN log :
    log[j].op \in CreateOps =>
      /\ j > 1
      /\ log[j - 1].op = FetchOpOf(log[j].op)
      /\ log[j - 1].args = CreatedBy(log[j])
      /\ IsNotFound(log[j - 1].err)
      /\ \A k \in DOMAIN log : log[k].op \in CreateOps => k = j

\* Both invocations have issued a create call for one and the same resource.
BothCreate ==
  \E i \in DOMAIN calls : \E j \in DOMAIN peer.calls :
    /\ calls[i].op \in CreateOps
    /\ peer.calls[j].op = calls[i].op
    /\ CreatedBy(peer.calls[j]) = CreatedBy(calls[i])

\* C21: of two invocations of getOrCreateConnection, or of
\* getOrCreateRepository, under way at once, each issues at most one create
\* call, and only after its own fetch of that resource reported not-found;
\* nothing orders the fetch of one against the create of the other, so both
\* may create under the same id (the witness).
C21_OneCreatePerFlowOnly ==
  /\ OneCreatePerFlow(calls)
  /\ OneCreatePerFlow(peer.calls)

\* Both fetches reported not-found and both invocations issued the create for
\* the same repository id; one create was accepted, the other refused, and
\* both invocations have ended.
C21_Witness ==
  /\ entry = "getOrCreateRepository"
  /\ BothCreate
  /\ pc \in {"done", "failed"} /\ peer.pc \in {"done", "failed"}
  /\ {pc, peer.pc} = {"done", "failed"}
  /\ {err, peer.err} = {NoError, AlreadyExistsError}
  /\ Cardinality({r \in repos : r.name = RepoName(ProjectId, TargetLocation, GenA, "a-b-c")}) = 1

====
